---- MODULE Spec2Model ----
(***************************************************************************)
(* Model of the dji-frame framing engine (crates/dji-frame): the Messager  *)
(* encoder/decoder, its sequence counter, the caller's destination buffer  *)
(* and the receive buffer handed to unpack; the Error values and their     *)
(* skip(); and the decode step of the receive task (commu, tasks/trans).   *)
(*                                                                         *)
(* Buffers are sequences of bytes (0..255); Rust's 0-based index i is the  *)
(* 1-based index i + 1 here.                                               *)
(***************************************************************************)
EXTENDS Integers, Sequences, FiniteSets, TLC

VARIABLES
    sequence,   \* Messager.sequence: the next outgoing sequence number (u8)
    seq0,       \* the value Messager::new was called with
    packs,      \* number of successful pack calls so far
    msg,        \* the value the producer hands to pack (or NoMsg)
    dst,        \* the producer's destination buffer
    dst0,       \* the destination buffer as it was when pack was called
    pseq,       \* Messager.sequence as it was when pack was called
    pres,       \* what the last pack call returned (or NoRes)
    src,        \* the consumer's buffer handed to unpack
    ures,       \* what the last unpack call returned (or NoRes)
    mcalls,     \* how many times the last pack call invoked msg.marshal
    data,       \* the receive task's accumulation buffer
    data0,      \* the accumulation buffer as the decode loop was started on it
    lres,       \* what unpack returned in the last data_process call (or NoRes)
    lmsg,       \* what the last data_process call returned (NoMsg for None)
    drained,    \* how many bytes the last data_process call drained
    frame0,     \* the valid frame the loop's buffer ended with at its start
    err,        \* an Error value a caller holds (or NoRes)
    skipv,      \* what err.skip() returned (or NoSkip)
    other,      \* the sequence counter of a second Messager
    ores,       \* what a second call (on a second Messager) returned, and on what
    ctype,      \* the message type whose unmarshal was called (or NoType)
    craw,       \* the bytes unmarshal was called on
    cres,       \* what unmarshal returned (or NoRes)
    cbuf,       \* the buffer the decoded value was marshalled into
    cenc,       \* what that marshal returned (or NoRes)
    magic,      \* MemCell.magic: four 16-bit limbs of the u64 in persistent memory
    value,      \* MemCell.value: the words of T in persistent memory
    ipc,        \* init(): 0 not running, k > 0 about to write word k, then magic
    ival,       \* the val init() was called with
    crashed,    \* a reset interrupted init() before the magic was written
    got,        \* what get() returned since the last boot
    online,     \* HeartBeat.online of every watched device
    ttl,        \* HeartBeat.ttl of every watched device (i8)
    STATUS,     \* the system mode (i8 bits of a SysMode)
    hpc,        \* the health task: "await", "tick", "offline", "ret"
    hdev,       \* the device of WATCH_LIST the health task is at
    tret,       \* what the last completed tick returned
    interval,   \* the health interval: "none" yet, the "first", a "later" one
    fop,        \* a feed or kill in progress in another context, or "none"
    fdev,       \* its device
    fttl,       \* its ttl argument
    fedset,     \* the devices feed has been called for
    sent,       \* the values packed into the stream, in order
    recvd,      \* the frames the decode loop returned, in order
    chunk,      \* the bytes of the trans task's last read (<<>>: none, or an error)
    tcalls      \* the data_process calls of the trans task's last loop turn

\* the receive task's decode loop
loop_vars == <<data, data0, lres, lmsg, drained, frame0>>

\* a caller consulting an Error
skip_vars == <<err, skipv>>

\* a second Messager decoding the same bytes
peer_vars == <<other, ores>>

\* the state beside the framing engine, its callers and the decode loop
\* a caller of the message catalogue's unmarshal and marshal
codec_vars == <<ctype, craw, cres, cbuf, cenc>>

\* a MemCell in memory that survives resets
cell_vars == <<magic, value, ipc, ival, crashed, got>>

\* the heartbeats of the watched devices, the system mode and the health task
health_vars == <<online, ttl, STATUS, hpc, hdev, tret, interval, fop, fdev, fttl, fedset>>

\* a stream of frames and what a decode loop made of it
stream_vars == <<sent, recvd>>

\* the trans task's last read
trans_vars == <<chunk, tcalls>>

ext_vars == <<peer_vars, codec_vars, cell_vars, health_vars, stream_vars, trans_vars>>

\* the Messager and its callers' values, buffers and results
engine_vars ==
    <<sequence, seq0, packs, msg, dst, dst0, pseq, pres, src, ures, mcalls>>

vars == <<sequence, seq0, packs, msg, dst, dst0, pseq, pres, src, ures, mcalls,
          loop_vars, skip_vars, ext_vars>>

(***************************************************************************)
(* Bounds of the model.                                                    *)
(***************************************************************************)
\* most frames in one stream
MaxFrames == 3

\* the number of devices in WATCH_LIST
MaxDevices == 2

\* how many bytes beyond a type's encoded size the decoded inputs go, and
\* the longest buffer a decoded value is marshalled into
MaxExtra == 2

\* largest small value of an Error's field
MaxField == 16

\* longest payload of the enumerated messages (besides the 5-byte test payload)
MaxPayload == 2
\* longest destination buffer offered to pack
MaxDst == 15
\* successful packs per behaviour of Spec
MaxPacks == 3
\* longest run of arbitrary bytes offered to unpack
MaxNoise == 4
\* successful packs per behaviour of SpecSeq (more than one full wrap)
MaxSeqPacks == 258

(***************************************************************************)
(* Program constants.                                                      *)
(***************************************************************************)
SOF == 165
HEAD_SIZE == 5
CMDID_SIZE == 2
TAIL_SIZE == 2
U16_MAX == 65535

Byte == 0..255

(***************************************************************************)
(* Integer helpers: u8 / u16 arithmetic and little-endian conversion.      *)
(***************************************************************************)
RECURSIVE Xor(_, _)
Xor(a, b) ==
    IF a = 0 THEN b
    ELSE IF b = 0 THEN a
    ELSE (((a % 2) + (b % 2)) % 2) + 2 * Xor(a \div 2, b \div 2)

wrapping_add(a, b) == (a + b) % 256

\* u16::to_le_bytes
to_le_bytes(x) == <<x % 256, (x \div 256) % 256>>

\* u16::from_le_bytes
from_le_bytes(b) == b[1] + 256 * b[2]

\* size as u16 (truncating cast)
as_u16(x) == x % 65536

(***************************************************************************)
(* Checksums (DJI CRC8 / CRC16): reflected, table driven.                  *)
(***************************************************************************)
CRC8_INIT == 255
CRC8_POLY == 140
CRC16_INIT == 65535
CRC16_POLY == 33800

\* eight shifts of the reflected register c
RECURSIVE CrcBits(_, _, _)
CrcBits(c, poly, k) ==
    IF k = 0 THEN c
    ELSE CrcBits(IF c % 2 = 1 THEN Xor(c \div 2, poly) ELSE c \div 2, poly, k - 1)

\* a ^ b on bytes
XOR8 == [a \in Byte |-> [b \in Byte |-> Xor(a, b)]]

\* the byte-indexed lookup tables of the two checksums
CRC8_TAB == [b \in Byte |-> CrcBits(b, CRC8_POLY, 8)]

CRC16_TAB == [b \in Byte |-> CrcBits(b, CRC16_POLY, 8)]

\* crc = CRC8_TAB[crc ^ x]
crc8_step(c, x) == CRC8_TAB[XOR8[c][x]]

\* crc = (crc >> 8) ^ CRC16_TAB[(crc ^ x) & 0xff]
crc16_step(c, x) ==
    LET t == CRC16_TAB[XOR8[c % 256][x]]
    IN  (t \div 256) * 256 + XOR8[t % 256][c \div 256]

\* the register c after bytes i.. of bs have been folded into it
\* (the test on n makes TLC evaluate the register before the next byte)
RECURSIVE Crc8Fold(_, _, _)
Crc8Fold(c, bs, i) ==
    IF i > Len(bs) THEN c
    ELSE LET n == crc8_step(c, bs[i])
         IN  IF n < 0 THEN n ELSE Crc8Fold(n, bs, i + 1)

\* the register after the bytes bs[i..j], taken in order (the range is
\* halved so that long buffers are folded at a small nesting depth)
RECURSIVE Crc16Range(_, _, _, _)
Crc16Range(c, bs, i, j) ==
    IF i > j THEN c
    ELSE IF i = j THEN crc16_step(c, bs[i])
    ELSE LET mid == (i + j) \div 2
             n == Crc16Range(c, bs, i, mid)
         IN  IF n < 0 THEN n ELSE Crc16Range(n, bs, mid + 1, j)

Crc16Fold(c, bs, i) == Crc16Range(c, bs, i, Len(bs))

calc_dji8(raw) == Crc8Fold(CRC8_INIT, raw, 1)

calc_dji16(raw) == Crc16Fold(CRC16_INIT, raw, 1)

\* impl Validator for DjiValidator
calculate_crc8(raw) == calc_dji8(raw)

calculate_crc16(raw) == calc_dji16(raw)

(***************************************************************************)
(* Results and errors.                                                     *)
(***************************************************************************)
NoRes == [ok |-> FALSE, kind |-> "None", val |-> 0]

NoMsg == [type |-> "None", payload |-> <<>>]

\* skip() has not been called
NoSkip == -1

\* no message type is being decoded
NoType == [name |-> "None", n |-> 0]

\* the second Messager has not been called
NoPeer == [src |-> <<>>, res |-> NoRes]

Err(kind, val) == [ok |-> FALSE, kind |-> kind, val |-> val]

\* Ok(usize) of marshal and pack
OkSize(n) == [ok |-> TRUE, kind |-> "Ok", val |-> n]

\* RawFrame
RawFrame(c, q, p) == [cmd_id |-> c, sequence |-> q, payload |-> p]

\* Ok((RawFrame, usize)) of unpack
OkFrame(f, n) == [ok |-> TRUE, kind |-> "Ok", val |-> n, frame |-> f]

\* the call does not return: unwrap() on None, or a range out of bounds
Panic == [ok |-> FALSE, kind |-> "Panic", val |-> 0]

\* faulty variant: a checksum failure discards up to the failing offset
skip_to_offset(e) ==
    CASE e.kind = "BufferTooSmall" -> 0
      [] e.kind = "InputTooLarge" -> 0
      [] e.kind = "UnexpectedEnd" -> 0
      [] e.kind = "ReSync" -> e.val
      [] e.kind = "MissingHeader" -> e.val
      [] e.kind = "InvalidChecksum" -> e.val
      [] e.kind = "DecodeError" -> e.val
      [] e.kind = "EncodeError" -> 0
      [] e.kind = "InvalidDataLength" -> 0

\* Error::skip
skip(e) ==
    CASE e.kind = "BufferTooSmall" -> 0
      [] e.kind = "InputTooLarge" -> 0
      [] e.kind = "UnexpectedEnd" -> 0
      [] e.kind = "ReSync" -> e.val
      [] e.kind = "MissingHeader" -> e.val
      [] e.kind = "InvalidChecksum" -> 1
      [] e.kind = "DecodeError" -> e.val
      [] e.kind = "EncodeError" -> 0
      [] e.kind = "InvalidDataLength" -> 0

(***************************************************************************)
(* Slices.                                                                 *)
(***************************************************************************)
\* buf[a..b] (Rust range, 0-based, b exclusive), already known to be in range
Slice(buf, a, b) == SubSeq(buf, a + 1, b)

\* buf.get(a..b).is_some()
InRange(buf, a, b) == a <= b /\ b <= Len(buf)

\* buf[at..at + Len(bytes)].copy_from_slice(bytes)
CopyInto(buf, at, bytes) ==
    SubSeq(buf, 1, at) \o bytes \o SubSeq(buf, at + Len(bytes) + 1, Len(buf))

(***************************************************************************)
(* Marshaler values.  A value is [type, payload]: TestCase<N> of the       *)
(* crate's tests or CustomRobotData<N> of the receive task, with           *)
(* N = Len(payload).  marshal returns the result and the destination       *)
(* slice as it leaves it.                                                  *)
(***************************************************************************)
TESTCASE_CMD_ID == 4660
CUSTOM_CMD_ID == 770

\* M::CMD_ID (any other implementation is given the task's command id)
CMD_ID(type) == IF type = "TestCase" THEN TESTCASE_CMD_ID ELSE CUSTOM_CMD_ID

\* TestCase::<N>::marshal
testcase_marshal(v, tail) ==
    LET N == Len(v.payload) IN
    IF Len(tail) < N
    THEN [res |-> Err("BufferTooSmall", N), buf |-> tail]
    ELSE [res |-> OkSize(N), buf |-> CopyInto(tail, 0, v.payload)]

\* CustomRobotData::<N>::marshal
custom_marshal(v, tail) ==
    LET N == Len(v.payload) IN
    IF Len(tail) < N
    THEN [res |-> Err("BufferTooSmall", N - Len(tail)), buf |-> tail]
    ELSE [res |-> OkSize(N), buf |-> CopyInto(tail, 0, v.payload)]

\* any other implementation of Marshaler::marshal: it writes the bytes of
\* v.payload that fit into the slice and returns v.ret, whatever that is
any_marshal(v, tail) ==
    LET k == IF Len(v.payload) < Len(tail) THEN Len(v.payload) ELSE Len(tail)
    IN  [res |-> v.ret, buf |-> CopyInto(tail, 0, SubSeq(v.payload, 1, k))]

\* msg.marshal(..), resolved by the value's type
marshal(val, out) ==
    IF val.type = "TestCase" THEN testcase_marshal(val, out)
    ELSE IF val.type = "CustomRobotData" THEN custom_marshal(val, out)
    ELSE any_marshal(val, out)

\* TestCase::<N>::unmarshal, N given by the type
testcase_unmarshal(N, raw) ==
    IF Len(raw) < N \/ Len(raw) # N
    THEN [res |-> Err("InvalidDataLength", N), payload |-> <<>>]
    ELSE [res |-> OkSize(N), payload |-> SubSeq(raw, 1, N)]

\* CustomRobotData::<N>::unmarshal, N given by the type
custom_unmarshal(N, raw) ==
    IF Len(raw) # N
    THEN [res |-> Err("InvalidDataLength", N), payload |-> <<>>]
    ELSE [res |-> OkSize(N), payload |-> SubSeq(raw, 1, N)]

\* M::unmarshal(raw) for the type M of value type `type` with parameter N
unmarshal(type, N, raw) ==
    IF type = "TestCase" THEN testcase_unmarshal(N, raw)
    ELSE custom_unmarshal(N, raw)

(***************************************************************************)
(* Messager::pack.  pack(sq, m, d) is the call msger.pack(&m, &mut d) on a  *)
(* Messager whose counter is sq: the result, the destination buffer and    *)
(* the counter as the call leaves them.                                    *)
(***************************************************************************)
\* faulty variant: the length field written big-endian
pack_header_be(plen, s) ==
    LET size_bytes == to_le_bytes(as_u16(plen))
        temp == <<SOF, size_bytes[2], size_bytes[1], s>>
    IN  Append(temp, calculate_crc8(temp))

\* faulty variant: the CRC8 computed before the sequence byte is filled in
pack_header_early_crc(plen, s) ==
    LET size_bytes == to_le_bytes(as_u16(plen))
        temp == <<SOF, size_bytes[1], size_bytes[2], 0>>
    IN  <<SOF, size_bytes[1], size_bytes[2], s, calculate_crc8(temp)>>

\* the frame header built for a payload of plen bytes at sequence s
pack_header(plen, s) ==
    LET size_bytes == to_le_bytes(as_u16(plen))
        temp == <<SOF, size_bytes[1], size_bytes[2], s>>
    IN  Append(temp, calculate_crc8(temp))

\* total frame length for a payload of plen bytes
pack_total(plen) == HEAD_SIZE + CMDID_SIZE + plen + TAIL_SIZE

\* faulty variant: the counter stops at 255
next_sequence_saturating(s) == IF s = 255 THEN 255 ELSE s + 1

\* self.sequence.wrapping_add(1)
next_sequence(s) == wrapping_add(s, 1)

\* faulty variant: the CRC16 written big-endian
pack_write_be(buf, cmd_id, plen, s) ==
    LET b1 == CopyInto(buf, 0, pack_header(plen, s))
        b2 == CopyInto(b1, HEAD_SIZE, to_le_bytes(cmd_id))
        cursor == HEAD_SIZE + CMDID_SIZE + plen
        crc == calculate_crc16(Slice(b2, 0, cursor))
    IN  CopyInto(b2, cursor, <<crc \div 256, crc % 256>>)

\* faulty variant: the CRC16 also covers the two bytes it is written over
pack_write_stale(buf, cmd_id, plen, s) ==
    LET b1 == CopyInto(buf, 0, pack_header(plen, s))
        b2 == CopyInto(b1, HEAD_SIZE, to_le_bytes(cmd_id))
        cursor == HEAD_SIZE + CMDID_SIZE + plen
        crc == calculate_crc16(Slice(b2, 0, cursor + TAIL_SIZE))
    IN  CopyInto(b2, cursor, to_le_bytes(crc))

\* the destination once header, command id and CRC16 are written around
\* the plen payload bytes that marshal left at the payload offset
pack_write(buf, cmd_id, plen, s) ==
    LET b1 == CopyInto(buf, 0, pack_header(plen, s))
        b2 == CopyInto(b1, HEAD_SIZE, to_le_bytes(cmd_id))
        cursor == HEAD_SIZE + CMDID_SIZE + plen
        crc == calculate_crc16(Slice(b2, 0, cursor))
    IN  CopyInto(b2, cursor, to_le_bytes(crc))

\* faulty variant: the start-of-frame byte is written before the checks
pack_err_committed(e, buf, s, calls) ==
    [res |-> e, dst |-> IF buf = <<>> THEN buf ELSE CopyInto(buf, 0, <<SOF>>),
     sequence |-> s, calls |-> calls]

\* faulty variant: the counter advances on an early return too
pack_err_advancing(e, buf, s, calls) ==
    [res |-> e, dst |-> buf, sequence |-> wrapping_add(s, 1), calls |-> calls]

\* an early return Err(e) after `calls` invocations of marshal: the
\* destination as it stands, the counter untouched
pack_err(e, buf, s, calls) ==
    [res |-> e, dst |-> buf, sequence |-> s, calls |-> calls]

\* faulty variant: only the header's five bytes are reserved
pack_precheck_header(d) == Len(d) < HEAD_SIZE

\* dst.len() < payload_offset
pack_precheck(d) == Len(d) < HEAD_SIZE + CMDID_SIZE

\* faulty variant: a marshal failure is reported as a lack of frame capacity
marshal_failed_as_capacity(e) ==
    Err("BufferTooSmall", HEAD_SIZE + CMDID_SIZE + TAIL_SIZE + e.val)

\* msg.marshal(..)?: the error of a failed marshal as pack returns it
marshal_failed(e) == e

\* faulty variant: the limit of a wider length field
input_too_large_i32(size) == size > 2147483647

\* size > u16::MAX as usize
input_too_large(size) == size > U16_MAX

\* faulty variant: the whole frame length is reported
pack_need_total(total, len) == total

\* the need of the capacity check, total - dst.len()
pack_need(total, len) == total - len

\* faulty variant: the room for the CRC16 is not counted
pack_short_tail(total, len) == len < total - TAIL_SIZE

\* dst.len() < total
pack_short(total, len) == len < total

pack(sq, m, d) ==
    LET payload_offset == HEAD_SIZE + CMDID_SIZE IN
    IF pack_precheck(d)
    THEN pack_err(Err("BufferTooSmall", payload_offset), d, sq, 0)
    ELSE IF ~InRange(d, payload_offset, Len(d))
    THEN pack_err(Panic, d, sq, 0)
    ELSE
    LET mr == marshal(m, Slice(d, payload_offset, Len(d)))
        dm == CopyInto(d, payload_offset, mr.buf)
        size == mr.res.val
        total == pack_total(size)
    IN  IF ~mr.res.ok
        THEN pack_err(marshal_failed(mr.res), dm, sq, 1)
        ELSE IF input_too_large(size)
        THEN pack_err(Err("InputTooLarge", U16_MAX), dm, sq, 1)
        ELSE IF pack_short(total, Len(d))
        THEN pack_err(Err("BufferTooSmall", pack_need(total, Len(d))), dm, sq, 1)
        ELSE IF ~InRange(dm, total - TAIL_SIZE, total)
        THEN pack_err(Panic, dm, sq, 1)
        ELSE [res |-> OkSize(total), dst |-> pack_write(dm, CMD_ID(m.type), size, sq),
              sequence |-> next_sequence(sq), calls |-> 1]

(***************************************************************************)
(* Messager::unpack.  unpack(s) is the call msger.unpack(&s); it reads no  *)
(* field of the Messager.                                                  *)
(***************************************************************************)
\* src.iter().position(|&x| SOF == x), as a 0-based index, or -1 for None
position_from(s, i) ==
    LET hits == {k \in i..Len(s) : s[k] = SOF} IN
    IF hits = {} THEN -1
    ELSE (CHOOSE k \in hits : \A j \in hits : k <= j) - 1

\* src.starts_with(&[SOF])
starts_with_sof(s) == Len(s) >= 1 /\ s[1] = SOF

\* faulty variant: ReSync skips the marker as well
locate_sof_consuming(s) ==
    LET start == position_from(s, 1) IN
    IF start # -1 THEN Err("ReSync", start + 1) ELSE Err("MissingHeader", Len(s))

\* faulty variant: MissingHeader counts one byte more than there is
locate_sof_overrun(s) ==
    LET start == position_from(s, 1) IN
    IF start # -1 THEN Err("ReSync", start) ELSE Err("MissingHeader", Len(s) + 1)

\* the error of the start-of-frame search when src does not start with SOF
locate_sof(s) ==
    LET start == position_from(s, 1) IN
    IF start # -1 THEN Err("ReSync", start) ELSE Err("MissingHeader", Len(s))

\* faulty variant: the header checksum is not checked
header_crc_unchecked(h) == TRUE

\* V::calculate_crc8(raw) != crc, negated
header_crc_ok(h) == calculate_crc8(Slice(h, 0, 4)) = h[5]

\* u16::from_le_bytes([raw[1], raw[2]]) as usize
header_length(h) == from_le_bytes(<<h[2], h[3]>>)

\* faulty variant: the sequence read one byte early
header_sequence_early(h) == h[3]

\* raw[3]
header_sequence(h) == h[4]

\* faulty variant: only the low byte of the CRC16 is compared
tail_crc_ok_low(body, tail) == calculate_crc16(body) % 256 = tail[1]

\* V::calculate_crc16(raw) != crc, negated
tail_crc_ok(body, tail) == calculate_crc16(body) = from_le_bytes(tail)

\* faulty variant: UnexpectedEnd reports the offset reached
unpack_body_offset(b, length, sq) ==
    LET c1 == HEAD_SIZE + CMDID_SIZE
        c2 == c1 + length
        c3 == c2 + TAIL_SIZE
    IN  IF ~InRange(b, HEAD_SIZE, c1) THEN Err("UnexpectedEnd", HEAD_SIZE)
        ELSE IF ~InRange(b, c1, c2) THEN Err("UnexpectedEnd", c1)
        ELSE IF ~InRange(b, c2, c3) THEN Err("UnexpectedEnd", c2)
        ELSE IF ~tail_crc_ok(Slice(b, 0, c2), Slice(b, c2, c3))
        THEN Err("InvalidChecksum", c3)
        ELSE OkFrame(RawFrame(from_le_bytes(Slice(b, HEAD_SIZE, c1)), sq,
                              Slice(b, c1, c2)), c3)

\* faulty variant: the payload range is not checked before its use
unpack_body_unchecked(b, length, sq) ==
    LET c1 == HEAD_SIZE + CMDID_SIZE
        c2 == c1 + length
        c3 == c2 + TAIL_SIZE
    IN  IF ~InRange(b, HEAD_SIZE, c1) THEN Err("UnexpectedEnd", Len(b))
        ELSE IF ~InRange(b, 0, c2) THEN Panic
        ELSE IF ~InRange(b, c2, c3) THEN Err("UnexpectedEnd", Len(b))
        ELSE IF ~tail_crc_ok(Slice(b, 0, c2), Slice(b, c2, c3))
        THEN Err("InvalidChecksum", c3)
        ELSE OkFrame(RawFrame(from_le_bytes(Slice(b, HEAD_SIZE, c1)), sq,
                              Slice(b, c1, c2)), c3)

\* faulty variant: the frame is taken to end where the buffer ends
unpack_body_whole(b, length, sq) ==
    LET c1 == HEAD_SIZE + CMDID_SIZE
        c2 == c1 + length
        c3 == c2 + TAIL_SIZE
    IN  IF ~InRange(b, HEAD_SIZE, c1) THEN Err("UnexpectedEnd", Len(b))
        ELSE IF ~InRange(b, c1, c2) THEN Err("UnexpectedEnd", Len(b))
        ELSE IF ~InRange(b, c2, c3) THEN Err("UnexpectedEnd", Len(b))
        ELSE IF ~tail_crc_ok(Slice(b, 0, Len(b) - TAIL_SIZE),
                             Slice(b, Len(b) - TAIL_SIZE, Len(b)))
        THEN Err("InvalidChecksum", Len(b))
        ELSE OkFrame(RawFrame(from_le_bytes(Slice(b, HEAD_SIZE, c1)), sq,
                              Slice(b, c1, c2)), c3)

\* the steps after the header's CRC8 passed, cursor = HEAD_SIZE
unpack_body(b, length, sq) ==
    LET c1 == HEAD_SIZE + CMDID_SIZE
        c2 == c1 + length
        c3 == c2 + TAIL_SIZE
    IN  IF ~InRange(b, HEAD_SIZE, c1) THEN Err("UnexpectedEnd", Len(b))
        ELSE IF ~InRange(b, c1, c2) THEN Err("UnexpectedEnd", Len(b))
        ELSE IF ~InRange(b, 0, c2) THEN Panic
        ELSE IF ~InRange(b, c2, c3) THEN Err("UnexpectedEnd", Len(b))
        ELSE IF ~tail_crc_ok(Slice(b, 0, c2), Slice(b, c2, c3))
        THEN Err("InvalidChecksum", c3)
        ELSE OkFrame(RawFrame(from_le_bytes(Slice(b, HEAD_SIZE, c1)), sq,
                              Slice(b, c1, c2)), c3)

unpack(s) ==
    IF ~starts_with_sof(s) THEN locate_sof(s)
    ELSE IF ~InRange(s, 0, HEAD_SIZE) THEN Err("UnexpectedEnd", Len(s))
    ELSE LET header == Slice(s, 0, HEAD_SIZE) IN
         IF ~header_crc_ok(header) THEN Err("InvalidChecksum", HEAD_SIZE)
         ELSE unpack_body(s, header_length(header), header_sequence(header))

\* faulty variant: frames that do not carry the Messager's own counter
\* are rejected
Messager_unpack_expecting(self, s) ==
    LET r == unpack(s) IN
    IF r.ok /\ r.frame.sequence # self THEN Err("InvalidChecksum", HEAD_SIZE)
    ELSE r

\* msger.unpack(&s) on the Messager whose counter is self
Messager_unpack(self, s) == unpack(s)

(***************************************************************************)
(* The receive task's decode step, data_process::<_, 5>(&mut data).        *)
(***************************************************************************)
\* the R of data_process::<_, 5>
RC_PAYLOAD == 5

\* what a Vec holds after a drain whose range is out of bounds (a panic)
DrainPanic == <<-1>>

\* faulty variant: the byte after the range is drained as well
drain_through(buf, n) ==
    IF n <= Len(buf) THEN SubSeq(buf, n + 2, Len(buf)) ELSE DrainPanic

\* src.drain(..n)
drain(buf, n) ==
    IF n <= Len(buf) THEN SubSeq(buf, n + 1, Len(buf)) ELSE DrainPanic

\* the Option<CustomRobotData<R>> of a decoded frame x
process_frame(x) ==
    LET um == custom_unmarshal(RC_PAYLOAD, x.payload) IN
    IF x.cmd_id = CUSTOM_CMD_ID /\ um.res.ok
    THEN [type |-> "CustomRobotData", payload |-> um.payload]
    ELSE NoMsg

\* faulty variant: nothing is drained on an error
data_process_keep(buf) ==
    LET r == unpack(buf) IN
    IF r.ok
    THEN [res |-> r, msg |-> process_frame(r.frame), n |-> r.val,
          data |-> drain(buf, r.val)]
    ELSE [res |-> r, msg |-> NoMsg, n |-> 0, data |-> buf]

\* data_process: the result of unpack, the returned Option, the number of
\* bytes drained and the buffer as the call leaves it
data_process(buf) ==
    LET r == unpack(buf) IN
    IF r.ok
    THEN [res |-> r, msg |-> process_frame(r.frame), n |-> r.val,
          data |-> drain(buf, r.val)]
    ELSE IF r = Panic
    THEN [res |-> r, msg |-> NoMsg, n |-> 0, data |-> buf]
    ELSE [res |-> r, msg |-> NoMsg, n |-> skip(r), data |-> drain(buf, skip(r))]

(***************************************************************************)
(* The trans task's loop turn for a read of x > 0 bytes.                   *)
(***************************************************************************)
\* the capacity of data, Vec::<u8, 128>
DATA_CAP == 128

\* the length of the read buffer, [0u8; 64]
READ_CAP == 64

\* heapless Vec::extend_from_slice: all of `more` is appended, or nothing
\* is and the call fails
extend_from_slice(v, more) ==
    IF Len(v) + Len(more) > DATA_CAP
    THEN [ok |-> FALSE, vec |-> v]
    ELSE [ok |-> TRUE, vec |-> v \o more]

\* faulty variant: after the clear the chunk starts the buffer afresh
trans_read_restart(buf, x) ==
    LET e == extend_from_slice(buf, x) IN
    IF ~e.ok
    THEN [data |-> x, calls |-> 0, res |-> NoRes, msg |-> NoMsg, n |-> 0]
    ELSE LET r == data_process(e.vec) IN
         [data |-> r.data, calls |-> 1, res |-> r.res, msg |-> r.msg, n |-> r.n]

\* the arm Ok(x) if x > 0: the buffer afterwards, the calls of
\* data_process, and what the call returned
trans_read(buf, x) ==
    LET e == extend_from_slice(buf, x) IN
    IF ~e.ok
    THEN [data |-> <<>>, calls |-> 0, res |-> NoRes, msg |-> NoMsg, n |-> 0]
    ELSE LET r == data_process(e.vec) IN
         [data |-> r.data, calls |-> 1, res |-> r.res, msg |-> r.msg, n |-> r.n]

(***************************************************************************)
(* The message catalogue (dji-gentrans, dji-pictrans, dji-ui): unmarshal   *)
(* of every implemented type, and the HurtData codec in full.  A type is   *)
(* [name, n], n being the const parameter N of a generic type.  unmarshal  *)
(* gives the set of results the call can have: one, unless the code's      *)
(* arithmetic overflows, which panics in a build with overflow checks and  *)
(* wraps in one without.  A decoded value of a type without enumerated     *)
(* fields is kept as the bytes its little-endian fields were read from.    *)
(***************************************************************************)
RemoteControl_SIZE == 12
RobotBuff_SIZE == 8
DartInfo_SIZE == 3
GameEvent_SIZE == 4
GameRobotHP_SIZE == 16
PowerHeat_SIZE == 14
HurtData_SIZE == 1
RobotPos_SIZE == 12
GameResult_SIZE == 1
GameStatus_SIZE == 11
RobotStatus_SIZE == 13
RefereeWarning_SIZE == 3
Interaction_HEAD == 6

\* Ok(value)
OkValue(v) == [ok |-> TRUE, kind |-> "Ok", val |-> v]

\* a usize subtraction a - b: the difference, or below zero the value the
\* wrapped result stands for (2^w + a - b, written a - b) 
usize_sub(a, b) == a - b

\* unmarshal of a type of `size` bytes without enumerated fields
\* (RemoteControl, RobotBuff, DartInfo, GameEvent, GameRobotHP, PowerHeat,
\* RobotPos, RobotStatus): the length check and the field reads
plain_unmarshal(name, size, raw) ==
    IF Len(raw) # size THEN {Err("InvalidDataLength", size)}
    ELSE {OkValue([type |-> name, bytes |-> raw])}

\* GameResult::unmarshal
GameResult_unmarshal(raw) ==
    IF Len(raw) # GameResult_SIZE THEN {Err("InvalidDataLength", GameResult_SIZE)}
    ELSE IF raw[1] \notin {0, 1, 2} THEN {Err("DecodeError", 0)}
    ELSE {OkValue([type |-> "GameResult", winner |-> raw[1]])}

\* GameStatus::unmarshal
GameStatus_unmarshal(raw) ==
    IF Len(raw) # GameStatus_SIZE THEN {Err("InvalidDataLength", GameStatus_SIZE)}
    ELSE IF (raw[1] % 16) \notin 1..5 THEN {Err("DecodeError", 0)}
    ELSE IF (raw[1] \div 16) \notin 0..5 THEN {Err("DecodeError", 0)}
    ELSE {OkValue([type |-> "GameStatus", game_type |-> raw[1] % 16,
                   game_progress |-> raw[1] \div 16, bytes |-> Tail(raw)])}

\* RefereeWarning::unmarshal
RefereeWarning_unmarshal(raw) ==
    IF Len(raw) # RefereeWarning_SIZE
    THEN {Err("InvalidDataLength", RefereeWarning_SIZE)}
    ELSE IF raw[1] \notin 1..4 THEN {Err("DecodeError", 0)}
    ELSE {OkValue([type |-> "RefereeWarning", level |-> raw[1],
                   robot_id |-> raw[2], count |-> raw[3]])}

\* the Reason of a high nibble, "None" for the nibbles that are none
Reason_of(x) ==
    CASE x = 0 -> "HitByProjectile"
      [] x = 1 -> "ModuleOffline"
      [] x = 5 -> "StruckByImpact"
      [] OTHER -> "None"

\* deduction_reason as u8
Reason_as_u8(r) ==
    CASE r = "HitByProjectile" -> 0
      [] r = "ModuleOffline" -> 1
      [] r = "StruckByImpact" -> 5

\* faulty variant: every nibble up to 5 is taken for a reason
HurtData_unmarshal_range(raw) ==
    IF Len(raw) # HurtData_SIZE THEN {Err("InvalidDataLength", HurtData_SIZE)}
    ELSE IF raw[1] \div 16 > 5 THEN {Err("DecodeError", 0)}
    ELSE {OkValue([type |-> "HurtData", armor_id |-> raw[1] % 16,
                   deduction_reason |->
                       IF raw[1] \div 16 \in {0, 1, 5} THEN Reason_of(raw[1] \div 16)
                       ELSE "HitByProjectile"])}

\* HurtData::unmarshal
HurtData_unmarshal(raw) ==
    IF Len(raw) # HurtData_SIZE THEN {Err("InvalidDataLength", HurtData_SIZE)}
    ELSE IF Reason_of((raw[1] \div 16) % 16) = "None" THEN {Err("DecodeError", 0)}
    ELSE {OkValue([type |-> "HurtData", armor_id |-> raw[1] % 16,
                   deduction_reason |-> Reason_of((raw[1] \div 16) % 16)])}

\* HurtData::marshal: dst[0] = (armor_id & 0xF) | ((reason as u8 & 0xF) << 4)
HurtData_marshal(v, out) ==
    IF Len(out) < HurtData_SIZE
    THEN [res |-> Err("BufferTooSmall", HurtData_SIZE), buf |-> out]
    ELSE [res |-> OkSize(HurtData_SIZE),
          buf |-> CopyInto(out, 0,
                    <<(v.armor_id % 16)
                        + 16 * (Reason_as_u8(v.deduction_reason) % 16)>>)]

\* the command codes of dji-ui
Commands == {256, 257, 258, 259, 260, 272}

\* Interaction::<N>::unmarshal
Interaction_unmarshal(N, raw) ==
    IF Len(raw) # N + Interaction_HEAD
    THEN IF usize_sub(N + Interaction_HEAD, Len(raw)) < 0
         THEN {Panic, Err("InvalidDataLength", usize_sub(N + Interaction_HEAD, Len(raw)))}
         ELSE {Err("InvalidDataLength", usize_sub(N + Interaction_HEAD, Len(raw)))}
    ELSE IF from_le_bytes(<<raw[1], raw[2]>>) \notin Commands
    THEN {Err("DecodeError", 1)}
    ELSE {OkValue([type |-> "Interaction",
                   cmd_id |-> from_le_bytes(<<raw[1], raw[2]>>),
                   bytes |-> SubSeq(raw, 3, Len(raw))])}

\* M::unmarshal(raw) for the catalogue type t
catalogue_unmarshal(t, raw) ==
    CASE t.name = "RemoteControl" -> plain_unmarshal(t.name, RemoteControl_SIZE, raw)
      [] t.name = "RobotBuff" -> plain_unmarshal(t.name, RobotBuff_SIZE, raw)
      [] t.name = "DartInfo" -> plain_unmarshal(t.name, DartInfo_SIZE, raw)
      [] t.name = "GameEvent" -> plain_unmarshal(t.name, GameEvent_SIZE, raw)
      [] t.name = "GameRobotHP" -> plain_unmarshal(t.name, GameRobotHP_SIZE, raw)
      [] t.name = "PowerHeat" -> plain_unmarshal(t.name, PowerHeat_SIZE, raw)
      [] t.name = "RobotPos" -> plain_unmarshal(t.name, RobotPos_SIZE, raw)
      [] t.name = "RobotStatus" -> plain_unmarshal(t.name, RobotStatus_SIZE, raw)
      [] t.name = "GameResult" -> GameResult_unmarshal(raw)
      [] t.name = "GameStatus" -> GameStatus_unmarshal(raw)
      [] t.name = "RefereeWarning" -> RefereeWarning_unmarshal(raw)
      [] t.name = "HurtData" -> HurtData_unmarshal(raw)
      [] t.name = "Interaction" -> Interaction_unmarshal(t.n, raw)
      [] t.name = "TestCase" -> {testcase_unmarshal(t.n, raw).res}
      [] t.name = "CustomRobotData" -> {custom_unmarshal(t.n, raw).res}

(***************************************************************************)
(* MemCell<T> (utils): a magic word and a value in memory that survives    *)
(* resets.  The u64 magic is kept as four 16-bit limbs, most significant   *)
(* first; T is WORDS words, stored one word at a time by write_volatile.   *)
(***************************************************************************)
ABI_VERSION == 1

WORDS == 2

\* 0xCAFA_DEAD_BEEF_0000 | (ABI_VERSION & 0xFFFF)
MAGIC == <<51962, 57005, 48879, ABI_VERSION % 65536>>

\* what invalidate() writes
ZeroMagic == <<0, 0, 0, 0>>

\* get() has not been called since the boot
NotCalled == [tag |-> "NotCalled", val |-> <<>>]

\* get() returned None
GetNone == [tag |-> "None", val |-> <<>>]

\* get() returned Some(self.value()); val is what the pointer reads
GetSome(v) == [tag |-> "Some", val |-> v]

\* MemCell::get
MemCell_get(m, v) == IF m = MAGIC THEN GetSome(v) ELSE GetNone

(***************************************************************************)
(* HeartBeat, Device and SysMode (system), and the health task.            *)
(***************************************************************************)
SysMode_Error == -1

SysMode_Boot == 0

SysMode_Normal == 1

HEALTH_MS == 100

EXPIRE_MS == 500

I8_MIN == -128

I8_MAX == 127

\* Device::max_ttl
max_ttl == EXPIRE_MS \div HEALTH_MS

\* the watched devices, by index
WATCH_LIST == 1..MaxDevices

\* i8 wrapping subtraction of 1, as AtomicI8::fetch_sub stores it
fetch_sub_1(x) == IF x = I8_MIN THEN I8_MAX ELSE x - 1

\* faulty variant: the mode follows the tick
health_mode_follow(ret, m) == IF ret THEN SysMode_Normal ELSE SysMode_Error

\* if !device.tick() { SysMode::Error.set() }: the mode stored afterwards
health_mode(ret, m) == IF ~ret THEN SysMode_Error ELSE m

(***************************************************************************)
(* Inputs offered by the environment.                                      *)
(***************************************************************************)
\* all byte strings over S of length 0..n
SeqsUpTo(S, n) == UNION {[1..k -> S] : k \in 0..n}

\* [fill; n]
Filled(n, fill) == [i \in 1..n |-> fill]

\* the payload of the crate's tests
TestPayload == <<1, 2, 3, 4, 5>>

Payloads == SeqsUpTo({1, SOF}, MaxPayload) \cup {TestPayload}

Msgs == [type : {"TestCase", "CustomRobotData"}, payload : Payloads]

\* the values Messager::new is called with
InitSeqs == {0, 86, 254}

DstLens == 0..MaxDst

\* the frame the encoder produces for value m at sequence q
FrameOf(q, m) ==
    LET total == pack_total(Len(m.payload))
    IN  Slice(pack(q, m, Filled(total, 0)).dst, 0, total)

Frames == {FrameOf(q, m) : q \in {86}, m \in Msgs}

Noise == SeqsUpTo({0, SOF}, MaxNoise)

ShortNoise == SeqsUpTo({0, SOF}, 2)

\* a frame cut short, with one byte overwritten, with its CRC16 zeroed,
\* without its first byte, behind noise, or followed by more bytes
Damaged(f) ==
    {Slice(f, 0, k) : k \in 0..Len(f)}
    \cup {CopyInto(f, i, <<x>>) : i \in 0..(Len(f) - 1), x \in {0, 255}}
    \cup {CopyInto(f, Len(f) - TAIL_SIZE, <<0, 0>>), Tail(f)}
    \cup {p \o f : p \in ShortNoise}
    \cup {f \o p : p \in ShortNoise}

\* a header with a valid CRC8 declaring a length the bytes behind it do not
\* have to match
LooseHeaders ==
    {pack_header(plen, 86) \o p : plen \in {0, 1, 3, 256, U16_MAX}, p \in Noise}

\* the longest frame there is (LEN = 65535, 65544 bytes), whole and
\* without its last byte
LongFrames ==
    LET f == FrameOf(86, [type |-> "TestCase", payload |-> Filled(U16_MAX, 7)])
    IN  {f, Slice(f, 0, Len(f) - 1)}

RecvInputs ==
    Noise \cup {Filled(10, 0)} \cup LooseHeaders \cup LongFrames
    \cup UNION {Damaged(f) : f \in Frames}

(***************************************************************************)
(* State machine.                                                          *)
(***************************************************************************)
Init ==
    /\ sequence \in InitSeqs
    /\ seq0 = sequence
    /\ packs = 0
    /\ msg = NoMsg
    /\ dst = <<>>
    /\ dst0 = <<>>
    /\ pseq = sequence
    /\ pres = NoRes
    /\ src = <<>>
    /\ ures = NoRes
    /\ mcalls = 0
    /\ data = <<>>
    /\ data0 = <<>>
    /\ lres = NoRes
    /\ lmsg = NoMsg
    /\ drained = 0
    /\ frame0 = <<>>
    /\ err = NoRes
    /\ skipv = NoSkip
    /\ other = 0
    /\ ores = NoPeer
    /\ ctype = NoType
    /\ craw = <<>>
    /\ cres = NoRes
    /\ cbuf = <<>>
    /\ cenc = NoRes
    /\ magic = ZeroMagic
    /\ value = [i \in 1..WORDS |-> 0]
    /\ ipc = 0
    /\ ival = [i \in 1..WORDS |-> 0]
    /\ crashed = FALSE
    /\ got = NotCalled
    /\ online = [d \in WATCH_LIST |-> FALSE]
    /\ ttl = [d \in WATCH_LIST |-> 0]
    /\ STATUS = SysMode_Boot
    /\ hpc = "await"
    /\ hdev = 1
    /\ tret = TRUE
    /\ interval = "none"
    /\ fop = "none"
    /\ fdev = 1
    /\ fttl = 0
    /\ fedset = {}
    /\ sent = <<>>
    /\ recvd = <<>>
    /\ chunk = <<>>
    /\ tcalls = 0

\* the same, with one Messager, where its counter takes no part
InitQuiet == Init /\ sequence = 0

\* no value, destination or receive buffer is held
Idle ==
    /\ msg = NoMsg /\ dst = <<>> /\ pres = NoRes /\ src = <<>> /\ ures = NoRes
    /\ ores = NoPeer

\* the producer builds a value and a zeroed destination buffer of length n
Produce(m, n) ==
    /\ msg' = m
    /\ dst' = Filled(n, 0)
    /\ dst0' = dst'
    /\ pseq' = sequence
    /\ pres' = NoRes
    /\ src' = <<>>
    /\ ures' = NoRes
    /\ mcalls' = 0
    /\ UNCHANGED <<sequence, seq0, packs, loop_vars, skip_vars, ext_vars>>

\* msger.pack(&msg, &mut dst)
DoPack ==
    LET r == pack(sequence, msg, dst) IN
    /\ msg # NoMsg
    /\ dst' = r.dst
    /\ dst0' = dst
    /\ pseq' = sequence
    /\ pres' = r.res
    /\ sequence' = r.sequence
    /\ packs' = IF r.res.ok THEN packs + 1 ELSE packs
    /\ src' = <<>>
    /\ ures' = NoRes
    /\ mcalls' = r.calls
    /\ UNCHANGED <<seq0, msg, loop_vars, skip_vars, ext_vars>>

Pack == packs < MaxPacks /\ DoPack

\* the transport carries the packed bytes dst[..n] verbatim to the consumer
Send ==
    /\ pres.ok
    /\ src' = Slice(dst, 0, pres.val)
    /\ ures' = NoRes
    /\ UNCHANGED <<sequence, seq0, packs, msg, dst, dst0, pseq, pres, mcalls,
                   loop_vars, skip_vars, ext_vars>>

\* the transport delivers arbitrary bytes to the consumer
Recv(b) ==
    /\ src' = b
    /\ ures' = NoRes
    /\ msg' = NoMsg
    /\ dst' = <<>>
    /\ dst0' = <<>>
    /\ pseq' = sequence
    /\ pres' = NoRes
    /\ mcalls' = 0
    /\ UNCHANGED <<sequence, seq0, packs, loop_vars, skip_vars, ext_vars>>

\* msger.unpack(&src)
Unpack ==
    /\ ures' = Messager_unpack(sequence, src)
    /\ UNCHANGED <<sequence, seq0, packs, msg, dst, dst0, pseq, pres, src, mcalls,
                   loop_vars, skip_vars, ext_vars>>

\* the producer drops its value and buffer, the consumer its receive buffer
Release ==
    /\ ~Idle
    /\ msg' = NoMsg
    /\ dst' = <<>>
    /\ dst0' = <<>>
    /\ pseq' = sequence
    /\ pres' = NoRes
    /\ src' = <<>>
    /\ ures' = NoRes
    /\ mcalls' = 0
    /\ UNCHANGED <<sequence, seq0, packs, loop_vars, skip_vars, ext_vars>>

\* a producer starts with any value and any destination length
Producer == Idle /\ \E m \in Msgs, n \in DstLens : Produce(m, n)

\* a consumer starts with any of the receive buffers
Consumer == Idle /\ \E b \in RecvInputs : Recv(b)

Next ==
    \/ Producer
    \/ Pack
    \/ Send
    \/ Consumer
    \/ Unpack
    \/ Release

Spec == Init /\ [][Next]_vars

(***************************************************************************)
(* A second Messager, with a counter of its own, is handed the bytes the   *)
(* first one has decoded.                                                  *)
(***************************************************************************)
\* the counters the second Messager may have reached
OtherSeqs == {0, 255}

\* Messager::new(o).unpack(&src)
PeerUnpack(o) ==
    /\ ures # NoRes /\ ores = NoPeer
    /\ other' = o
    /\ ores' = [src |-> src, res |-> Messager_unpack(o, src)]
    /\ UNCHANGED <<engine_vars, loop_vars, skip_vars, stream_vars, trans_vars, codec_vars, cell_vars, health_vars>>

Peer == \E o \in OtherSeqs : PeerUnpack(o)

\* the second Messager's caller drops the result
PeerRelease ==
    /\ ores # NoPeer
    /\ other' = 0
    /\ ores' = NoPeer
    /\ UNCHANGED <<engine_vars, loop_vars, skip_vars, stream_vars, trans_vars, codec_vars, cell_vars, health_vars>>

NextPeer ==
    \/ Producer
    \/ Pack
    \/ Send
    \/ Consumer
    \/ Unpack
    \/ Release
    \/ Peer
    \/ PeerRelease

SpecPeer == Init /\ [][NextPeer]_vars

(***************************************************************************)
(* The caller's buffer has grown: the bytes decoded before, followed by    *)
(* what the transport delivered since, are handed to unpack again.         *)
(***************************************************************************)
\* what may follow in the buffer: noise, a marker, the start of a frame, a
\* whole frame
Trailers ==
    {<<0>>, <<SOF>>, <<255, 255>>,
     pack_header(1, 87),
     FrameOf(87, [type |-> "TestCase", payload |-> <<SOF>>])}

\* msger.unpack(&(src ++ t)), after a frame was found at the front of src
UnpackMore(t) ==
    /\ ures # NoRes /\ ures.ok /\ ores = NoPeer
    /\ other' = sequence
    /\ ores' = [src |-> src \o t, res |-> Messager_unpack(sequence, src \o t)]
    /\ UNCHANGED <<engine_vars, loop_vars, skip_vars, stream_vars, trans_vars, codec_vars, cell_vars, health_vars>>

NextTrail ==
    \/ Consumer
    \/ Unpack
    \/ Release
    \/ \E t \in Trailers : UnpackMore(t)
    \/ PeerRelease

SpecTrail == InitQuiet /\ [][NextTrail]_vars

(***************************************************************************)
(* A long run of packs on one Messager: one producer packs again and again *)
(* into the same destination, past a full wrap of the counter.             *)
(***************************************************************************)
SeqMsgs ==
    {[type |-> "TestCase", payload |-> <<1>>],
     [type |-> "CustomRobotData", payload |-> <<>>]}

SeqDstLens == {9, 10}

ProducerSeq == Idle /\ \E m \in SeqMsgs, n \in SeqDstLens : Produce(m, n)

PackSeq == packs < MaxSeqPacks /\ DoPack

NextSeq == ProducerSeq \/ PackSeq

SpecSeq == Init /\ [][NextSeq]_vars

(***************************************************************************)
(* Producers with any implementation of Marshaler: one whose marshal may   *)
(* fail after writing, or report a size other than what it wrote.          *)
(***************************************************************************)
\* what such a marshal returns
AnyReturns ==
    {OkSize(n) : n \in {0, 1, 3, U16_MAX, U16_MAX + 1, U16_MAX + MaxDst}}
    \cup {Err("EncodeError", 1), Err("BufferTooSmall", 3)}

AnyMsgs ==
    [type : {"AnyMarshaler"}, payload : {<<>>, <<SOF>>, <<7, 8, 9>>},
     ret : AnyReturns]

ProducerAny == Idle /\ \E m \in Msgs \cup AnyMsgs, n \in DstLens : Produce(m, n)

NextAny == ProducerAny \/ Pack \/ Release

SpecAny == Init /\ [][NextAny]_vars

(***************************************************************************)
(* The same value is packed a second time, by a Messager at the sequence   *)
(* the first pack used, into a destination of the same length that held    *)
(* other bytes before.                                                     *)
(***************************************************************************)
\* what a destination of n bytes may hold before the call
Priors(n) == {Filled(n, 255), [i \in 1..n |-> i]}

\* Messager::new(pseq).pack(&msg, &mut d)
PackAgain(d) ==
    LET r == pack(pseq, msg, d) IN
    /\ msg # NoMsg /\ pres # NoRes /\ ores = NoPeer
    /\ other' = pseq
    /\ ores' = [src |-> d, res |-> r.res, dst |-> r.dst]
    /\ UNCHANGED <<engine_vars, loop_vars, skip_vars, stream_vars, trans_vars, codec_vars, cell_vars, health_vars>>

NextFill ==
    \/ ProducerAny
    \/ Pack
    \/ \E d \in Priors(Len(dst0)) : PackAgain(d)
    \/ Release
    \/ PeerRelease

SpecFill == Init /\ [][NextFill]_vars

(***************************************************************************)
(* A caller consulting Error::skip on any Error value.                     *)
(***************************************************************************)
ErrorKinds ==
    {"BufferTooSmall", "InputTooLarge", "UnexpectedEnd", "ReSync",
     "MissingHeader", "InvalidChecksum", "DecodeError", "EncodeError",
     "InvalidDataLength"}

\* the Error values: every kind with a small or a large field
Errors ==
    {Err(k, v) : k \in ErrorKinds, v \in (0..MaxField) \cup {U16_MAX + 9}}

\* a call returns Err(e) to the caller
Raise(e) ==
    /\ err' = e
    /\ skipv' = NoSkip
    /\ UNCHANGED <<sequence, seq0, packs, msg, dst, dst0, pseq, pres, src, ures,
                   mcalls, loop_vars, ext_vars>>

\* the caller evaluates err.skip()
Skip ==
    /\ err # NoRes
    /\ skipv' = skip(err)
    /\ UNCHANGED <<sequence, seq0, packs, msg, dst, dst0, pseq, pres, src, ures,
                   mcalls, loop_vars, err, ext_vars>>

Failing == \E e \in Errors : Raise(e)

NextSkip == Failing \/ Skip

SpecSkip == Init /\ [][NextSkip]_vars

(***************************************************************************)
(* The decode loop on a buffer that receives no more bytes: data_process   *)
(* is called again and again on what the previous call left.               *)
(***************************************************************************)
\* the frames a stream ends with
ResyncFrames ==
    {FrameOf(86, m) :
        m \in {[type |-> "CustomRobotData", payload |-> TestPayload],
               [type |-> "CustomRobotData", payload |-> <<SOF, SOF>>],
               [type |-> "TestCase", payload |-> <<>>]}}

\* corrupted bytes: noise, a header whose body was lost, a frame cut short
\* or with one byte overwritten
Corrupted ==
    Noise
    \cup {pack_header(plen, 86) \o q : plen \in {0, 1, 2, 256}, q \in ShortNoise}
    \cup UNION {{Slice(f, 0, k) : k \in 1..(Len(f) - 1)}
                 \cup {CopyInto(f, i, <<0>>) : i \in 1..(Len(f) - 1)}
                 : f \in ResyncFrames}

\* the loop starts on the bytes p followed by the frame f (or by nothing)
Fill(p, f) ==
    /\ data = <<>> /\ lres = NoRes
    /\ data' = p \o f
    /\ data0' = data'
    /\ frame0' = f
    /\ UNCHANGED <<sequence, seq0, packs, msg, dst, dst0, pseq, pres, src, ures,
                   mcalls, lres, lmsg, drained, skip_vars, ext_vars>>

\* let s = data_process::<_, 5>(&mut data)
DataProcess ==
    LET r == data_process(data) IN
    /\ data # DrainPanic
    /\ data' = r.data
    /\ lres' = r.res
    /\ lmsg' = r.msg
    /\ drained' = r.n
    /\ UNCHANGED <<sequence, seq0, packs, msg, dst, dst0, pseq, pres, src, ures,
                   mcalls, data0, frame0, skip_vars, ext_vars>>

\* any received bytes
FillAny == \E b \in RecvInputs : Fill(b, <<>>)

\* corrupted bytes followed by one complete valid frame
FillFrame == \E p \in Corrupted, f \in ResyncFrames : Fill(p, f)

NextResync == FillAny \/ FillFrame \/ DataProcess

SpecResync == Init /\ [][NextResync]_vars

(***************************************************************************)
(* A caller of the catalogue: it decodes some bytes as some type, and      *)
(* marshals a decoded HurtData again.                                      *)
(***************************************************************************)
\* the implemented types (Custom2Robot is todo!() and is left out)
Catalogue ==
    {[name |-> nm, n |-> 0] :
        nm \in {"RemoteControl", "RobotBuff", "DartInfo", "GameEvent",
                "GameRobotHP", "PowerHeat", "RobotPos", "RobotStatus",
                "GameResult", "GameStatus", "RefereeWarning", "HurtData",
                "Interaction"}}
    \cup {[name |-> "Interaction", n |-> 4], [name |-> "TestCase", n |-> 5],
          [name |-> "CustomRobotData", n |-> 5]}

\* the encoded size S of a catalogue type
SizeOf(t) ==
    CASE t.name = "RemoteControl" -> RemoteControl_SIZE
      [] t.name = "RobotBuff" -> RobotBuff_SIZE
      [] t.name = "DartInfo" -> DartInfo_SIZE
      [] t.name = "GameEvent" -> GameEvent_SIZE
      [] t.name = "GameRobotHP" -> GameRobotHP_SIZE
      [] t.name = "PowerHeat" -> PowerHeat_SIZE
      [] t.name = "RobotPos" -> RobotPos_SIZE
      [] t.name = "RobotStatus" -> RobotStatus_SIZE
      [] t.name = "GameResult" -> GameResult_SIZE
      [] t.name = "GameStatus" -> GameStatus_SIZE
      [] t.name = "RefereeWarning" -> RefereeWarning_SIZE
      [] t.name = "HurtData" -> HurtData_SIZE
      [] t.name = "Interaction" -> t.n + Interaction_HEAD
      [] OTHER -> t.n

\* n bytes: b, c, then zeros
RawOf(n, b, c) == [i \in 1..n |-> IF i = 1 THEN b ELSE IF i = 2 THEN c ELSE 0]

\* the byte strings handed to unmarshal of t: every length up to MaxExtra
\* beyond the type's size, and at the type's size every first byte
RawInputs(t) ==
    {RawOf(n, 1, 1) : n \in 0..(SizeOf(t) + MaxExtra)}
    \cup {RawOf(SizeOf(t), b, c) : b \in Byte, c \in {0, 1}}

\* M::unmarshal(&raw)
Decode(t, raw) ==
    /\ ctype = NoType
    /\ ctype' = t
    /\ craw' = raw
    /\ cres' \in catalogue_unmarshal(t, raw)
    /\ cbuf' = <<>>
    /\ cenc' = NoRes
    /\ UNCHANGED <<engine_vars, loop_vars, skip_vars, stream_vars, trans_vars, peer_vars, cell_vars, health_vars>>

\* value.marshal(&mut [0xFF; n]) on a decoded HurtData
Encode(n) ==
    /\ ctype.name = "HurtData" /\ cres.ok /\ cenc = NoRes
    /\ LET r == HurtData_marshal(cres.val, Filled(n, 255)) IN
          cbuf' = r.buf /\ cenc' = r.res
    /\ UNCHANGED <<engine_vars, loop_vars, skip_vars, stream_vars, trans_vars, peer_vars, cell_vars, health_vars, ctype, craw, cres>>

\* the caller drops the value and its buffers
Forget ==
    /\ ctype # NoType
    /\ ctype' = NoType
    /\ craw' = <<>>
    /\ cres' = NoRes
    /\ cbuf' = <<>>
    /\ cenc' = NoRes
    /\ UNCHANGED <<engine_vars, loop_vars, skip_vars, stream_vars, trans_vars, peer_vars, cell_vars, health_vars>>

NextCodec ==
    \/ \E t \in Catalogue : \E raw \in RawInputs(t) : Decode(t, raw)
    \/ \E n \in 0..MaxExtra : Encode(n)
    \/ Forget

SpecCodec == InitQuiet /\ [][NextCodec]_vars

(***************************************************************************)
(* A program using one MemCell over resets.  Exclusive access is the       *)
(* caller's duty, so get() and invalidate() run only while no init() does. *)
(***************************************************************************)
\* the values init() is called with
CellVals == {<<1, 1>>, <<2, 2>>}

\* what the memory can hold when power is applied
ColdMagics == {MAGIC, ZeroMagic, <<51962, 57005, 48879, 0>>}

ColdValues == {<<0, 0>>, <<1, 2>>}

\* init(val) is entered
InitCall(v) ==
    /\ ipc = 0
    /\ ipc' = 1
    /\ ival' = v
    /\ crashed' = FALSE
    /\ UNCHANGED <<magic, value, got>>
    /\ UNCHANGED <<engine_vars, loop_vars, skip_vars, stream_vars, trans_vars, peer_vars, codec_vars, health_vars>>

\* self.value().write_volatile(val), one word of it
InitWriteValue ==
    /\ ipc \in 1..WORDS
    /\ value' = [value EXCEPT ![ipc] = ival[ipc]]
    /\ ipc' = ipc + 1
    /\ UNCHANGED <<magic, ival, crashed, got>>
    /\ UNCHANGED <<engine_vars, loop_vars, skip_vars, stream_vars, trans_vars, peer_vars, codec_vars, health_vars>>

\* compiler_fence; self.magic().write_volatile(Self::MAGIC); return
InitWriteMagic ==
    /\ ipc = WORDS + 1
    /\ magic' = MAGIC
    /\ ipc' = 0
    /\ UNCHANGED <<value, ival, crashed, got>>
    /\ UNCHANGED <<engine_vars, loop_vars, skip_vars, stream_vars, trans_vars, peer_vars, codec_vars, health_vars>>

\* get()
Get ==
    /\ ipc = 0
    /\ got' = MemCell_get(magic, value)
    /\ UNCHANGED <<magic, value, ipc, ival, crashed>>
    /\ UNCHANGED <<engine_vars, loop_vars, skip_vars, stream_vars, trans_vars, peer_vars, codec_vars, health_vars>>

\* invalidate()
Invalidate ==
    /\ ipc = 0
    /\ magic' = ZeroMagic
    /\ got' = NotCalled
    /\ UNCHANGED <<value, ipc, ival, crashed>>
    /\ UNCHANGED <<engine_vars, loop_vars, skip_vars, stream_vars, trans_vars, peer_vars, codec_vars, health_vars>>

\* a system reset: the memory is kept, the program starts again
Reset ==
    /\ ipc' = 0
    /\ crashed' = (ipc > 0 \/ crashed)
    /\ got' = NotCalled
    /\ UNCHANGED <<magic, value, ival>>
    /\ UNCHANGED <<engine_vars, loop_vars, skip_vars, stream_vars, trans_vars, peer_vars, codec_vars, health_vars>>

\* power is lost and applied again: the memory holds anything
ColdBoot(m, v) ==
    /\ magic' = m
    /\ value' = v
    /\ ipc' = 0
    /\ crashed' = FALSE
    /\ got' = NotCalled
    /\ UNCHANGED ival
    /\ UNCHANGED <<engine_vars, loop_vars, skip_vars, stream_vars, trans_vars, peer_vars, codec_vars, health_vars>>

NextCell ==
    \/ \E v \in CellVals : InitCall(v)
    \/ InitWriteValue
    \/ InitWriteMagic
    \/ Get
    \/ Invalidate
    \/ Reset
    \/ \E m \in ColdMagics : \E v \in ColdValues : ColdBoot(m, v)

SpecCell == InitQuiet /\ [][NextCell]_vars

(***************************************************************************)
(* The health task over its intervals, the controller that sets the mode   *)
(* Normal, and a context that feeds and kills heartbeats.  The tasks share *)
(* one cooperative executor, so the controller runs only while the health  *)
(* task awaits its ticker; feed and kill are atomic stores that may come   *)
(* between any two atomic operations of tick.                              *)
(***************************************************************************)
\* the ttl values feed is called with
FeedTtls == {I8_MIN, 0, 1, max_ttl}

\* t.next().await returns: the for loop starts at the first device
HealthWake ==
    /\ hpc = "await"
    /\ hpc' = "tick"
    /\ hdev' = 1
    /\ interval' = IF interval = "none" THEN "first" ELSE "later"
    /\ UNCHANGED <<online, ttl, STATUS, tret, fop, fdev, fttl, fedset>>
    /\ UNCHANGED <<engine_vars, loop_vars, skip_vars, stream_vars, trans_vars, peer_vars, codec_vars, cell_vars>>

\* tick: let prev = self.ttl.fetch_sub(1); if prev < 1 .. else return true
TickFetchSub ==
    /\ hpc = "tick"
    /\ ttl' = [ttl EXCEPT ![hdev] = fetch_sub_1(ttl[hdev])]
    /\ IF ttl[hdev] < 1
       THEN hpc' = "offline" /\ UNCHANGED tret
       ELSE hpc' = "ret" /\ tret' = TRUE
    /\ UNCHANGED <<online, STATUS, hdev, interval, fop, fdev, fttl, fedset>>
    /\ UNCHANGED <<engine_vars, loop_vars, skip_vars, stream_vars, trans_vars, peer_vars, codec_vars, cell_vars>>

\* tick: self.ttl.store(0)
TickStoreTtl ==
    /\ hpc = "offline"
    /\ ttl' = [ttl EXCEPT ![hdev] = 0]
    /\ hpc' = "offline2"
    /\ UNCHANGED <<online, STATUS, hdev, tret, interval, fop, fdev, fttl, fedset>>
    /\ UNCHANGED <<engine_vars, loop_vars, skip_vars, stream_vars, trans_vars, peer_vars, codec_vars, cell_vars>>

\* tick: self.online.store(false); return false
TickStoreOnline ==
    /\ hpc = "offline2"
    /\ online' = [online EXCEPT ![hdev] = FALSE]
    /\ tret' = FALSE
    /\ hpc' = "ret"
    /\ UNCHANGED <<ttl, STATUS, hdev, interval, fop, fdev, fttl, fedset>>
    /\ UNCHANGED <<engine_vars, loop_vars, skip_vars, stream_vars, trans_vars, peer_vars, codec_vars, cell_vars>>

\* if !device.tick() { SysMode::Error.set() }, then the next device or the
\* await of the ticker
HealthBranch ==
    /\ hpc = "ret"
    /\ STATUS' = health_mode(tret, STATUS)
    /\ IF hdev < MaxDevices
       THEN hdev' = hdev + 1 /\ hpc' = "tick"
       ELSE hdev' = 1 /\ hpc' = "await"
    /\ UNCHANGED <<online, ttl, tret, interval, fop, fdev, fttl, fedset>>
    /\ UNCHANGED <<engine_vars, loop_vars, skip_vars, stream_vars, trans_vars, peer_vars, codec_vars, cell_vars>>

\* controller::main: SysMode::Normal.set()
ControllerNormal ==
    /\ hpc = "await"
    /\ STATUS # SysMode_Normal
    /\ STATUS' = SysMode_Normal
    /\ UNCHANGED <<online, ttl, hpc, hdev, tret, interval, fop, fdev, fttl, fedset>>
    /\ UNCHANGED <<engine_vars, loop_vars, skip_vars, stream_vars, trans_vars, peer_vars, codec_vars, cell_vars>>

\* feed: self.online.store(true)
FeedOnline(d, n) ==
    /\ fop = "none"
    /\ online' = [online EXCEPT ![d] = TRUE]
    /\ fop' = "feed"
    /\ fdev' = d
    /\ fttl' = n
    /\ fedset' = fedset \cup {d}
    /\ UNCHANGED <<ttl, STATUS, hpc, hdev, tret, interval>>
    /\ UNCHANGED <<engine_vars, loop_vars, skip_vars, stream_vars, trans_vars, peer_vars, codec_vars, cell_vars>>

\* feed: self.ttl.store(ttl)
FeedTtl ==
    /\ fop = "feed"
    /\ ttl' = [ttl EXCEPT ![fdev] = fttl]
    /\ fop' = "none"
    /\ UNCHANGED <<online, STATUS, hpc, hdev, tret, interval, fdev, fttl, fedset>>
    /\ UNCHANGED <<engine_vars, loop_vars, skip_vars, stream_vars, trans_vars, peer_vars, codec_vars, cell_vars>>

\* kill: self.online.store(false)
KillOnline(d) ==
    /\ fop = "none"
    /\ online' = [online EXCEPT ![d] = FALSE]
    /\ fop' = "kill"
    /\ fdev' = d
    /\ fttl' = 0
    /\ UNCHANGED <<ttl, STATUS, hpc, hdev, tret, interval, fedset>>
    /\ UNCHANGED <<engine_vars, loop_vars, skip_vars, stream_vars, trans_vars, peer_vars, codec_vars, cell_vars>>

\* kill: self.ttl.store(0)
KillTtl ==
    /\ fop = "kill"
    /\ ttl' = [ttl EXCEPT ![fdev] = 0]
    /\ fop' = "none"
    /\ UNCHANGED <<online, STATUS, hpc, hdev, tret, interval, fdev, fttl, fedset>>
    /\ UNCHANGED <<engine_vars, loop_vars, skip_vars, stream_vars, trans_vars, peer_vars, codec_vars, cell_vars>>

NextHealth ==
    \/ HealthWake
    \/ TickFetchSub
    \/ TickStoreTtl
    \/ TickStoreOnline
    \/ HealthBranch
    \/ ControllerNormal
    \/ \E d \in WATCH_LIST : \E n \in FeedTtls : FeedOnline(d, n)
    \/ FeedTtl
    \/ \E d \in WATCH_LIST : KillOnline(d)
    \/ KillTtl

SpecHealth == InitQuiet /\ [][NextHealth]_vars

(***************************************************************************)
(* A stream: consecutive packs of one Messager written back to back, then  *)
(* a decode loop (unpack; drain what was consumed, or skip() on an error)  *)
(* that runs while bytes are left.                                         *)
(***************************************************************************)
\* the values of a stream: the tests' value, an empty one, one whose payload
\* is start markers, one whose payload is a whole frame
StreamMsgs ==
    {[type |-> "TestCase", payload |-> TestPayload],
     [type |-> "TestCase", payload |-> <<>>],
     [type |-> "CustomRobotData", payload |-> <<SOF, SOF>>],
     [type |-> "CustomRobotData",
      payload |-> FrameOf(0, [type |-> "TestCase", payload |-> <<>>])]}

\* msger.pack(&m, &mut buf) into a buffer with room to spare; the bytes it
\* returned are appended to the stream
StreamPack(m) ==
    LET r == pack(sequence, m, Filled(pack_total(Len(m.payload)) + 1, 0)) IN
    /\ lres = NoRes /\ Len(sent) < MaxFrames
    /\ r.res.ok
    /\ sequence' = r.sequence
    /\ packs' = packs + 1
    /\ data' = data \o Slice(r.dst, 0, r.res.val)
    /\ data0' = data'
    /\ sent' = Append(sent, m)
    /\ UNCHANGED <<seq0, msg, dst, dst0, pseq, pres, src, ures, mcalls,
                   lres, lmsg, drained, frame0, recvd,
                   skip_vars, peer_vars, codec_vars, cell_vars, health_vars, trans_vars>>

\* one turn of the decode loop
StreamUnpack ==
    LET r == Messager_unpack(sequence, data) IN
    /\ sent # <<>> /\ data # <<>> /\ data # DrainPanic
    /\ lres' = r
    /\ IF r.ok
       THEN recvd' = Append(recvd, r.frame) /\ drained' = r.val
       ELSE recvd' = recvd /\ drained' = IF r = Panic THEN 0 ELSE skip(r)
    /\ data' = drain(data, drained')
    /\ UNCHANGED <<engine_vars, data0, lmsg, frame0, sent,
                   skip_vars, peer_vars, codec_vars, cell_vars, health_vars, trans_vars>>

NextStream == (\E m \in StreamMsgs : StreamPack(m)) \/ StreamUnpack

SpecStream == Init /\ [][NextStream]_vars

(***************************************************************************)
(* The trans task: read after read from the UART into the accumulation     *)
(* buffer.                                                                 *)
(***************************************************************************)
\* the frame the task is waiting for: CMD_ID 0x0302, five payload bytes
RcFrame == FrameOf(0, [type |-> "CustomRobotData", payload |-> TestPayload])

\* a full read that starts with a CRC8-valid header whose LEN no buffer of
\* the task can hold
StallRead == pack_header(200, 0) \o Filled(READ_CAP - 5, 0)

\* what one read delivers: a frame, two frames, such a header with noise
\* behind it, a full read of noise
Chunks == {RcFrame, RcFrame \o RcFrame, StallRead, Filled(READ_CAP, 0)}

\* one turn of the loop with Ok(x), x > 0
Read(x) ==
    LET r == trans_read(data, x) IN
    /\ chunk' = x
    /\ data0' = data
    /\ data' = r.data
    /\ tcalls' = r.calls
    /\ lres' = r.res
    /\ lmsg' = r.msg
    /\ drained' = r.n
    /\ UNCHANGED <<engine_vars, frame0, skip_vars, stream_vars, peer_vars,
                   codec_vars, cell_vars, health_vars>>

\* one turn of the loop with Ok(0) or Err(e)
ReadNothing ==
    /\ chunk' = <<>>
    /\ data0' = data
    /\ tcalls' = 0
    /\ lres' = NoRes
    /\ lmsg' = NoMsg
    /\ drained' = 0
    /\ UNCHANGED <<engine_vars, data, frame0, skip_vars, stream_vars, peer_vars,
                   codec_vars, cell_vars, health_vars>>

Reads == \E x \in Chunks : Read(x)

NextTrans == Reads \/ ReadNothing

SpecTrans == InitQuiet /\ [][NextTrans]_vars

(***************************************************************************)
(* Properties.                                                             *)
(***************************************************************************)
\* the encoded size N of the held value
EncodedSize == Len(msg.payload)

\* pack has been called on the held value and destination
Packed == msg # NoMsg /\ pres # NoRes

\* the receive buffer holds exactly the bytes the last pack returned
LoopedBack == pres.ok /\ src = SubSeq(dst, 1, pres.val)

\* unpack has been called on the receive buffer
Unpacked == ures # NoRes

\* C1: round trip.  Packing a value of encoded size N into a destination of
\* at least N + 9 bytes returns N + 9, and unpacking the returned bytes
\* succeeds with the same length, the value's CMD_ID, the sequence the
\* Messager had at the pack, and a payload that unmarshal turns back into
\* the value.
RoundTrip ==
    /\ (Packed /\ Len(dst0) >= EncodedSize + 9) => pres = OkSize(EncodedSize + 9)
    /\ (LoopedBack /\ Unpacked) =>
          /\ ures.ok
          /\ ures.val = pres.val
          /\ ures.frame.cmd_id = CMD_ID(msg.type)
          /\ ures.frame.sequence = pseq
          /\ unmarshal(msg.type, EncodedSize, ures.frame.payload)
                = [res |-> OkSize(EncodedSize), payload |-> msg.payload]

RoundTripWitness ==
    /\ LoopedBack /\ Unpacked /\ ures.ok
    /\ msg.payload = TestPayload
    /\ Len(dst) > pres.val
    /\ ures.frame.payload = TestPayload

\* C2: sequence monotonicity.  The k-th successful pack (k counted from 0)
\* of a Messager created with sequence s writes (s + k) mod 256 as the SEQ
\* byte, for any number of packs; the pack at sequence 255 succeeds like any
\* other and leaves the counter at 0.
SequenceMonotonic ==
    /\ pres.ok => dst[4] = (seq0 + (packs - 1)) % 256
    /\ (Packed /\ Len(dst0) >= EncodedSize + 9) => pres.ok
    /\ (pres.ok /\ pseq = 255) => sequence = 0

SequenceMonotonicWitness ==
    /\ pres.ok /\ packs > 256 /\ seq0 = 86 /\ dst[4] = 86 /\ sequence = 87

\* C3: the counter equals (s + number of successful packs) mod 256 after
\* any calls: a successful pack advances it by one, a failed pack and an
\* unpack leave it unchanged.
CounterCountsPacks ==
    /\ sequence = (seq0 + packs) % 256
    /\ Packed => sequence = IF pres.ok THEN (pseq + 1) % 256 ELSE pseq
    /\ ~Packed => sequence = pseq

CounterCountsPacksWitness ==
    /\ seq0 = 254 /\ packs = 2 /\ sequence = 0
    /\ Packed /\ ~pres.ok /\ Unpacked

\* C4: wire layout.  After a successful pack of a value whose marshal wrote
\* `size` bytes the destination starts with SOF, size as little-endian u16,
\* the pre-call sequence, CRC8 of those four bytes, CMD_ID little-endian,
\* the payload, and CRC16 of everything before it little-endian; the
\* returned length is size + 9.
WireLayout ==
    pres.ok =>
        LET size == EncodedSize IN
        /\ dst[1] = 165
        /\ dst[2] = size % 256 /\ dst[3] = size \div 256
        /\ dst[4] = pseq
        /\ dst[5] = calculate_crc8(SubSeq(dst, 1, 4))
        /\ dst[6] = CMD_ID(msg.type) % 256 /\ dst[7] = CMD_ID(msg.type) \div 256
        /\ SubSeq(dst, 8, 7 + size) = msg.payload
        /\ dst[8 + size] + 256 * dst[9 + size]
              = calculate_crc16(SubSeq(dst, 1, 7 + size))
        /\ pres.val = size + 9

WireLayoutWitness ==
    /\ pres.ok /\ EncodedSize = 2 /\ msg.payload[1] = 165
    /\ msg.type = "CustomRobotData" /\ Len(dst) > 11 /\ pseq = 255

\* the frame of the crate's tests
TestFrame == <<165, 5, 0, 86, 240, 52, 18, 1, 2, 3, 4, 5, 132, 113>>

\* C5: concrete scenario.  Packing TestCase [1,2,3,4,5] (CMD_ID 0x1234) on a
\* Messager at sequence 0x56 writes exactly A5 05 00 56 F0 34 12 01 02 03 04
\* 05 84 71, and unpack accepts exactly these 14 bytes as a frame.
ConcreteEncode ==
    /\ (pres.ok /\ msg = [type |-> "TestCase", payload |-> TestPayload] /\ pseq = 86)
          => (pres.val = 14 /\ SubSeq(dst, 1, 14) = TestFrame)
    /\ (Unpacked /\ src = TestFrame) => (ures.ok /\ ures.val = 14)

ConcreteEncodeWitness ==
    /\ pres.ok /\ msg = [type |-> "TestCase", payload |-> TestPayload]
    /\ seq0 = 86 /\ packs = 1
    /\ src = TestFrame /\ ures.ok

\* src contains the start-of-frame byte
HasSof == \E i \in 1..Len(src) : src[i] = 165

\* the 0-based index of the first start-of-frame byte of src
FirstSof ==
    (CHOOSE i \in 1..Len(src) : src[i] = 165 /\ \A j \in 1..(i - 1) : src[j] # 165) - 1

\* src[0] = 0xA5
StartsWithSof == Len(src) >= 1 /\ src[1] = 165

\* src holds five header bytes and the fifth is the CRC8 of the first four
HeaderValid ==
    Len(src) >= 5 /\ calculate_crc8(SubSeq(src, 1, 4)) = src[5]

\* the little-endian u16 of src[1..3]
DeclaredLen == src[2] + 256 * src[3]

\* the little-endian CRC16 field behind the declared payload matches
TailValid ==
    src[8 + DeclaredLen] + 256 * src[9 + DeclaredLen]
        = calculate_crc16(SubSeq(src, 1, 7 + DeclaredLen))

\* C6: start-marker classification.  For a buffer (the empty one included)
\* whose first byte is not 0xA5, unpack returns ReSync{skip = i} when the
\* first 0xA5 is at index i > 0 and MissingHeader{skip = src.len()} when
\* there is none, and nothing else.
StartMarker ==
    (Unpacked /\ ~StartsWithSof) =>
        IF HasSof
        THEN ures = Err("ReSync", FirstSof) /\ FirstSof > 0
        ELSE ures = Err("MissingHeader", Len(src))

StartMarkerWitness ==
    /\ Unpacked /\ ~StartsWithSof
    /\ ures = Err("ReSync", 2)
    /\ Len(src) > 9 /\ src[4] # 165

\* C7: header checksum.  For a buffer that starts with 0xA5, has at least
\* five bytes and whose fifth byte is not the CRC8 of the first four, unpack
\* returns InvalidChecksum{at = 5}, whatever follows and whatever LEN says.
HeaderChecksum ==
    (Unpacked /\ StartsWithSof /\ Len(src) >= 5 /\ ~HeaderValid)
        => ures = Err("InvalidChecksum", 5)

HeaderChecksumWitness ==
    /\ Unpacked /\ StartsWithSof /\ Len(src) = 14 /\ ~HeaderValid
    /\ src[3] = 255
    /\ ures = Err("InvalidChecksum", 5)

\* C8: frame checksum.  For a buffer that starts with a CRC8-valid header
\* declaring LEN, holds at least 9 + LEN bytes and whose CRC16 field differs
\* from the CRC16 of the 7 + LEN bytes before it, unpack returns
\* InvalidChecksum{at = 9 + LEN}.
FrameChecksum ==
    (Unpacked /\ StartsWithSof /\ HeaderValid /\ Len(src) >= 9 + DeclaredLen
        /\ ~TailValid)
        => ures = Err("InvalidChecksum", 9 + DeclaredLen)

FrameChecksumWitness ==
    /\ Unpacked /\ StartsWithSof /\ HeaderValid /\ DeclaredLen = 5
    /\ Len(src) = 14 /\ src[13] = 0 /\ src[14] = 0
    /\ ures = Err("InvalidChecksum", 14)

\* C9: truncation.  For a buffer that starts with 0xA5, unpack returns
\* UnexpectedEnd exactly when the buffer has fewer than 5 bytes, or its
\* header passes CRC8 and it has fewer than 9 + LEN bytes; the read field is
\* the buffer length.
Truncation ==
    (Unpacked /\ StartsWithSof) =>
        /\ ures.kind = "UnexpectedEnd"
              <=> (Len(src) < 5 \/ (HeaderValid /\ Len(src) < 9 + DeclaredLen))
        /\ ures.kind = "UnexpectedEnd" => ures = Err("UnexpectedEnd", Len(src))

TruncationWitness ==
    /\ Unpacked /\ StartsWithSof /\ HeaderValid
    /\ DeclaredLen = 65535 /\ Len(src) = 9
    /\ ures = Err("UnexpectedEnd", 9)

\* C10: successful decode.  unpack returns Ok exactly when the buffer starts
\* with 0xA5, its header passes CRC8, it holds at least 9 + LEN bytes and the
\* CRC16 field matches; then consumed = 9 + LEN, sequence = src[3], cmd_id is
\* the little-endian u16 of src[5..7] and the payload is src[7..7+LEN].
SuccessfulDecode ==
    Unpacked =>
        /\ ures.ok <=> (/\ StartsWithSof
                        /\ HeaderValid
                        /\ Len(src) >= 9 + DeclaredLen
                        /\ TailValid)
        /\ ures.ok =>
              /\ ures.val = 9 + DeclaredLen
              /\ ures.frame.sequence = src[4]
              /\ ures.frame.cmd_id = src[6] + 256 * src[7]
              /\ ures.frame.payload = [i \in 1..DeclaredLen |-> src[7 + i]]

SuccessfulDecodeWitness ==
    /\ Unpacked /\ ures.ok /\ ~Packed
    /\ Len(src) > ures.val /\ ures.val = 11
    /\ ures.frame.payload = <<165, 1>>

\* C11: Error::skip returns 0 for BufferTooSmall, InputTooLarge,
\* UnexpectedEnd, EncodeError and InvalidDataLength, the skip field for
\* ReSync and MissingHeader, 1 for InvalidChecksum whatever its at field,
\* and the at field for DecodeError.
ErrorSkip ==
    skipv # NoSkip =>
        /\ err.kind \in {"BufferTooSmall", "InputTooLarge", "UnexpectedEnd",
                         "EncodeError", "InvalidDataLength"} => skipv = 0
        /\ err.kind \in {"ReSync", "MissingHeader", "DecodeError"}
              => skipv = err.val
        /\ err.kind = "InvalidChecksum" => skipv = 1
        /\ err.kind \in ErrorKinds

ErrorSkipWitness ==
    /\ err = Err("InvalidChecksum", 14) /\ skipv = 1

\* C12 as stated: every iteration of the decode/discard loop on a buffer
\* that is not empty either succeeds or strictly shortens the buffer.
ResyncAlwaysShrinks ==
    [][(DataProcess /\ data # <<>>)
          => (lres'.ok \/ Len(data') < Len(data))]_vars

\* C12, amended: every iteration of the decode/discard loop either drains
\* at least one byte (consumed on Ok, skip() on ReSync, MissingHeader and
\* InvalidChecksum) or leaves the buffer unchanged with UnexpectedEnd, or
\* with MissingHeader{skip = 0} on the empty buffer; so the loop reaches
\* such a result within src.len() iterations, and from then on repeats it
\* on the unchanged buffer until more bytes arrive.
ResyncProgress ==
    [][DataProcess =>
        \/ Len(data') < Len(data) /\ drained' = Len(data) - Len(data') /\ drained' >= 1
        \/ /\ data' = data /\ drained' = 0
           /\ \/ lres' = Err("UnexpectedEnd", Len(data))
              \/ data = <<>> /\ lres' = Err("MissingHeader", 0)]_vars

ResyncProgressWitness ==
    /\ lres = Err("UnexpectedEnd", Len(data)) /\ drained = 0
    /\ 0 < Len(data) /\ Len(data) < Len(data0)

\* a complete valid frame starts at the 0-based index i of buf
IsFrameAt(buf, i) ==
    LET b == SubSeq(buf, i + 1, Len(buf))
        n == b[2] + 256 * b[3]
    IN  /\ Len(b) >= 9 /\ b[1] = 165
        /\ calculate_crc8(SubSeq(b, 1, 4)) = b[5]
        /\ Len(b) >= 9 + n
        /\ b[8 + n] + 256 * b[9 + n] = calculate_crc16(SubSeq(b, 1, 7 + n))

\* the loop started on corrupted bytes followed by a valid frame, and no
\* complete valid frame starts inside the corrupted bytes
CorruptedThenFrame ==
    /\ frame0 # <<>>
    /\ \A i \in 0..(Len(data0) - Len(frame0) - 1) : ~IsFrameAt(data0, i)

\* the buffer still ends with the whole of the valid frame
EndsWithFrame ==
    /\ Len(data) >= Len(frame0)
    /\ SubSeq(data, Len(data) - Len(frame0) + 1, Len(data)) = frame0

\* the last iteration discarded corrupted bytes only, no more than reported
DiscardedNoise ==
    /\ lres.kind \in {"ReSync", "InvalidChecksum"}
    /\ 1 <= drained /\ drained <= lres.val
    /\ EndsWithFrame

\* the last iteration returned the valid frame, or the loop ran on after it
FrameReturned ==
    \/ /\ lres.ok /\ lres.val = Len(frame0) /\ data = <<>>
       /\ lres.frame.payload = SubSeq(frame0, 8, Len(frame0) - 2)
       /\ lres.frame.sequence = frame0[4]
       /\ lres.frame.cmd_id = frame0[6] + 256 * frame0[7]
    \/ data = <<>> /\ lres = Err("MissingHeader", 0)

\* the loop stands at a CRC8-valid header of the corrupted bytes that
\* declares more bytes than the buffer holds
Stalled ==
    /\ lres = Err("UnexpectedEnd", Len(data)) /\ drained = 0
    /\ EndsWithFrame /\ Len(data) > Len(frame0)
    /\ data[1] = 165 /\ calculate_crc8(SubSeq(data, 1, 4)) = data[5]
    /\ 9 + data[2] + 256 * data[3] > Len(data)

\* C13 as stated: on corrupted bytes followed by one valid frame the loop
\* gives only ReSync or InvalidChecksum, each discarding at most the bytes
\* it reports, until it returns the frame.
AlignmentRecovered ==
    (CorruptedThenFrame /\ lres # NoRes) => (DiscardedNoise \/ FrameReturned)

\* C13, amended: on corrupted bytes (in which no complete valid frame
\* starts) followed by one valid frame the loop gives only ReSync,
\* InvalidChecksum or UnexpectedEnd; ReSync and InvalidChecksum discard
\* between one byte and the bytes they report, all of them corrupted bytes;
\* the frame is returned once the corrupted bytes are gone, unless the loop
\* first meets UnexpectedEnd at a CRC8-valid header declaring more bytes
\* than the buffer holds, where it discards nothing and stays.
AlignmentRecoveredOrStalled ==
    (CorruptedThenFrame /\ lres # NoRes)
        => (DiscardedNoise \/ FrameReturned \/ Stalled)

AlignmentRecoveredOrStalledWitness ==
    /\ CorruptedThenFrame /\ lres.ok /\ data = <<>>
    /\ Len(data0) = Len(frame0) + 7
    /\ lmsg = [type |-> "CustomRobotData", payload |-> TestPayload]

\* C14: unpack returns Ok, ReSync, MissingHeader, UnexpectedEnd or
\* InvalidChecksum for every buffer, also behind a CRC8-valid header whose
\* LEN exceeds the bytes that follow; it never panics on a range or on the
\* unwrap of src.get(..cursor).
UnpackNeverPanics ==
    Unpacked =>
        /\ ures # Panic
        /\ ures.kind \in {"Ok", "ReSync", "MissingHeader", "UnexpectedEnd",
                          "InvalidChecksum"}

UnpackNeverPanicsWitness ==
    /\ Unpacked /\ StartsWithSof /\ HeaderValid
    /\ DeclaredLen = 256 /\ Len(src) = 8
    /\ ures.kind = "UnexpectedEnd"

\* what the held value's marshal returns and leaves in the payload region
\* dst0[7..] of the destination pack was called with
MarshalOutcome == marshal(msg, SubSeq(dst0, 8, Len(dst0)))

\* the first seven bytes of the destination (or all, if fewer) are as they
\* were before the call
FramingUntouched ==
    /\ Len(dst) = Len(dst0)
    /\ \A i \in 1..Len(dst0) : i <= 7 => dst[i] = dst0[i]

\* the payload region holds what marshal left there and nothing else
OnlyMarshalWrote ==
    Len(dst0) >= 7 => SubSeq(dst, 8, Len(dst)) = MarshalOutcome.buf

\* C15: pack into a destination of 0..6 bytes fails with
\* BufferTooSmall{need = 7} without calling marshal, writes no byte of the
\* destination and leaves the sequence counter unchanged.
PrecheckFails ==
    (Packed /\ Len(dst0) < 7) =>
        /\ pres = Err("BufferTooSmall", 7)
        /\ mcalls = 0
        /\ dst = dst0
        /\ sequence = pseq

PrecheckFailsWitness ==
    /\ Packed /\ Len(dst0) = 6 /\ EncodedSize = 0
    /\ pres = Err("BufferTooSmall", 7) /\ packs = 1

\* C16: when marshal succeeds reporting size <= 65535 and the destination
\* is shorter than 7 + size + 2, pack fails with
\* BufferTooSmall{need = 7 + size + 2 - dst.len()}, writes no header,
\* command id or CRC and leaves the sequence counter unchanged.
CapacityFails ==
    (Packed /\ Len(dst0) >= 7 /\ MarshalOutcome.res.ok
        /\ MarshalOutcome.res.val <= 65535
        /\ Len(dst0) < 7 + MarshalOutcome.res.val + 2)
        => /\ pres = Err("BufferTooSmall",
                         (7 + MarshalOutcome.res.val + 2) - Len(dst0))
           /\ mcalls = 1
           /\ FramingUntouched /\ OnlyMarshalWrote
           /\ sequence = pseq

CapacityFailsWitness ==
    /\ Packed /\ msg.type = "AnyMarshaler" /\ msg.ret = OkSize(65535)
    /\ Len(dst0) = 12 /\ pres = Err("BufferTooSmall", 65532)
    /\ dst[8] = 165

\* C17: packing a payload of N bytes into a destination of length L with
\* 7 <= L < 7 + N fails with the BufferTooSmall the value's own marshal
\* reports, unchanged: need = N for TestCase (5 for a 5-byte payload into
\* 10 bytes), need = N - (L - 7) for CustomRobotData; the sequence counter
\* is unchanged.
MarshalErrorPropagated ==
    (Packed /\ msg.type \in {"TestCase", "CustomRobotData"}
        /\ 7 <= Len(dst0) /\ Len(dst0) < 7 + EncodedSize)
        => /\ msg.type = "TestCase" => pres = Err("BufferTooSmall", EncodedSize)
           /\ msg.type = "CustomRobotData"
                 => pres = Err("BufferTooSmall", EncodedSize - (Len(dst0) - 7))
           /\ sequence = pseq

MarshalErrorPropagatedWitness ==
    /\ Packed /\ msg = [type |-> "TestCase", payload |-> TestPayload]
    /\ Len(dst0) = 10 /\ pseq = 86
    /\ pres = Err("BufferTooSmall", 5)

\* C18 as stated: whenever pack fails with BufferTooSmall{need}, need is the
\* length the whole frame requires minus dst.len(), on every path.
NeedIsShortfall ==
    (Packed /\ pres.kind = "BufferTooSmall")
        => pres.val = (EncodedSize + 9) - Len(dst0)

\* C19: when marshal reports a size above 65535, pack fails with
\* InputTooLarge{max = 65535}, also when the destination is too small as
\* well; no header, command id or CRC is written and the sequence counter
\* is unchanged.
OversizeRejected ==
    (Packed /\ Len(dst0) >= 7 /\ MarshalOutcome.res.ok
        /\ MarshalOutcome.res.val > 65535)
        => /\ pres = Err("InputTooLarge", 65535)
           /\ FramingUntouched /\ OnlyMarshalWrote
           /\ sequence = pseq

OversizeRejectedWitness ==
    /\ Packed /\ msg.type = "AnyMarshaler" /\ msg.ret = OkSize(65536)
    /\ Len(dst0) = 7 /\ pres = Err("InputTooLarge", 65535)

\* C20: a failing pack leaves dst[0..7] as it was and appends no CRC16;
\* the only bytes of the destination that may differ lie in dst[7..] and
\* were written by the value's marshal.
FailedPackWritesNothing ==
    (Packed /\ ~pres.ok) => (FramingUntouched /\ OnlyMarshalWrote)

FailedPackWritesNothingWitness ==
    /\ Packed /\ ~pres.ok /\ dst # dst0
    /\ msg.type = "AnyMarshaler" /\ msg.ret = Err("EncodeError", 1)
    /\ pres = Err("EncodeError", 1) /\ Len(dst0) = 9 /\ dst[9] = 8

DecodeLengthContract ==
    (cres # NoRes /\ Len(craw) # SizeOf(ctype))
        => cres = Err("InvalidDataLength", SizeOf(ctype))

\* C27: HurtData over every byte b.  unmarshal([b]) succeeds exactly when
\* the high nibble of b is 0, 1 or 5, with armor_id the low nibble and the
\* reason of that nibble, and is DecodeError{at = 0} otherwise; marshal of
\* the decoded value writes b as the first byte, nothing else, and returns 1.
HurtCodec ==
    (ctype.name = "HurtData" /\ Len(craw) = 1 /\ cres # NoRes) =>
        LET b == craw[1] IN
        /\ cres.ok <=> (b \div 16) \in {0, 1, 5}
        /\ ~cres.ok => cres = Err("DecodeError", 0)
        /\ cres.ok =>
              /\ cres.val.armor_id = b % 16
              /\ (b \div 16 = 0) => cres.val.deduction_reason = "HitByProjectile"
              /\ (b \div 16 = 1) => cres.val.deduction_reason = "ModuleOffline"
              /\ (b \div 16 = 5) => cres.val.deduction_reason = "StruckByImpact"
        /\ (cenc # NoRes /\ Len(cbuf) >= 1) =>
              /\ cenc = OkSize(1)
              /\ cbuf[1] = b
              /\ \A i \in 2..Len(cbuf) : cbuf[i] = 255

HurtCodecWitness ==
    /\ ctype.name = "HurtData" /\ craw = <<88>> /\ cres.ok
    /\ cres.val.deduction_reason = "StruckByImpact" /\ cres.val.armor_id = 8
    /\ cenc = OkSize(1) /\ cbuf = <<88, 255>>

\* C23 as stated: if a reset occurs during init(val) before the magic value
\* is written, then on the next boot get() returns None, whatever the
\* memory held before, a cell validly initialized earlier included.
CrashConsistent ==
    (crashed /\ got # NotCalled) => got = GetNone

\* C24 as stated: whenever a tick completes leaving ttl() = 0, check() is
\* false and that tick returned false.
TickOfflineAtZero ==
    (hpc = "ret" /\ fop = "none" /\ ttl[hdev] = 0)
        => (~online[hdev] /\ tret = FALSE)

\* the health task takes a step
HealthStep == hpc' # hpc

\* C28: on every health interval the health task stores Error when a tick
\* of a watched device returned false; a watched device never fed makes the
\* mode Error by the end of the first interval; and no step of the health
\* task stores Normal or Boot.
HealthSetsError ==
    [][/\ (hpc = "ret" /\ tret = FALSE /\ HealthStep) => STATUS' = SysMode_Error
       /\ (hpc = "ret" /\ hpc' = "await" /\ interval = "first"
             /\ \E d \in WATCH_LIST : d \notin fedset) => STATUS' = SysMode_Error
       /\ HealthStep => STATUS' \in {STATUS, SysMode_Error}]_vars

HealthSetsErrorWitness ==
    /\ hpc = "await" /\ interval = "later" /\ STATUS = SysMode_Error
    /\ fedset = {1} /\ tret = FALSE /\ online[1] /\ ttl[1] = 3

\* the frame a decoder should return for the i-th value of the stream
ExpectedFrame(i) ==
    RawFrame(CMD_ID(sent[i].type), (seq0 + i - 1) % 256, sent[i].payload)

\* C25: frame order over a stream.  For the concatenation of k frames of k
\* consecutive successful packs on a Messager created with sequence s, every
\* turn of the decode loop returns a frame; the frames returned are the
\* packed ones in packing order, with sequences s, s+1, .. (mod 256) and the
\* original payloads; and the buffer is empty exactly when all k are returned.
StreamInOrder ==
    (sent # <<>> /\ lres # NoRes) =>
        /\ lres.ok
        /\ Len(recvd) <= Len(sent)
        /\ \A i \in 1..Len(recvd) : recvd[i] = ExpectedFrame(i)
        /\ (data = <<>>) <=> (Len(recvd) = Len(sent))
        /\ data = SubSeq(data0, Len(data0) - Len(data) + 1, Len(data0))

StreamInOrderWitness ==
    /\ Len(sent) = 3 /\ seq0 = 254 /\ data = <<>> /\ Len(recvd) = 3
    /\ recvd[1].sequence = 254 /\ recvd[3].sequence = 0
    /\ Len(recvd[2].payload) = 9 /\ recvd[2].payload[1] = 165

\* the decode loop took a turn
LoopTurned == <<data, lres>>' # <<data, lres>>

\* C26: ReSync keeps the marker.  When unpack(src) returns ReSync{skip = i},
\* 0 < i < src.len(), src[i] = 0xA5 and no byte before it is 0xA5; the loop
\* drains i bytes and the buffer then starts with 0xA5; the turn after a
\* ReSync returns neither ReSync nor MissingHeader.
ReSyncKeepsMarker ==
    [][/\ (LoopTurned /\ lres'.kind = "ReSync") =>
             LET i == lres'.val IN
             /\ 0 < i /\ i < Len(data)
             /\ data[i + 1] = SOF
             /\ \A j \in 1..i : data[j] # SOF
             /\ drained' = i
             /\ data' = SubSeq(data, i + 1, Len(data))
             /\ data'[1] = SOF
       /\ (LoopTurned /\ lres.kind = "ReSync") =>
             lres'.kind \notin {"ReSync", "MissingHeader"}]_vars

ReSyncKeepsMarkerWitness ==
    /\ frame0 # <<>> /\ data0 = <<0, 0>> \o frame0
    /\ lres.ok /\ data = <<>> /\ drained = Len(frame0)

\* C29: drain safety.  For every buffer src, an error e of unpack(src) has
\* e.skip() <= src.len() and an Ok((frame, consumed)) has
\* 9 <= consumed <= src.len(), so the drain that follows is in range.
DrainInRange ==
    Unpacked =>
        IF ures.ok
        THEN 9 <= ures.val /\ ures.val <= Len(src)
                /\ drain(src, ures.val) # DrainPanic
        ELSE ures # Panic /\ skip(ures) <= Len(src)
                /\ drain(src, skip(ures)) # DrainPanic

DrainInRangeWitness ==
    /\ Unpacked /\ ures = Err("MissingHeader", 4) /\ Len(src) = 4
    /\ drain(src, skip(ures)) = <<>>

\* C30: pack bounds safety.  For every destination length and every size
\* marshal returns, consistent with what it wrote or not, pack does not
\* panic and keeps the destination's length; it returns an error, or
\* size + 9 <= dst.len() with the header, the command id and the CRC16
\* written around the `size` payload bytes and every byte from size + 9 on
\* as marshal left it.
PackInBounds ==
    Packed =>
        /\ pres # Panic
        /\ Len(dst) = Len(dst0)
        /\ pres.ok =>
              LET size == MarshalOutcome.res.val
                  left == SubSeq(dst0, 1, 7) \o MarshalOutcome.buf
              IN  /\ MarshalOutcome.res.ok
                  /\ pres.val = size + 9
                  /\ size + 9 <= Len(dst)
                  /\ SubSeq(dst, 1, 5) = pack_header(size, pseq)
                  /\ SubSeq(dst, 6, 7) = to_le_bytes(CMD_ID(msg.type))
                  /\ SubSeq(dst, 8, 7 + size) = SubSeq(left, 8, 7 + size)
                  /\ SubSeq(dst, 8 + size, 9 + size)
                        = to_le_bytes(calculate_crc16(SubSeq(dst, 1, 7 + size)))
                  /\ SubSeq(dst, size + 10, Len(dst))
                        = SubSeq(left, size + 10, Len(dst))

PackInBoundsWitness ==
    /\ Packed /\ pres = OkSize(10) /\ Len(dst) = 10
    /\ msg.type = "AnyMarshaler" /\ msg.payload = <<7, 8, 9>>
    /\ msg.ret = OkSize(1) /\ dst[8] = 7

\* the second call was made on the first call's bytes followed by more
Extended ==
    /\ ores # NoPeer /\ Len(ores.src) > Len(src)
    /\ SubSeq(ores.src, 1, Len(src)) = src

\* C31: trailing bytes are ignored.  Whenever unpack(src) returns
\* Ok((frame, n)), unpack(src ++ t) returns the same frame fields and the
\* same n, whatever bytes t follow.
TrailingIgnored ==
    (Unpacked /\ ures.ok /\ Extended) => ores.res = ures

TrailingIgnoredWitness ==
    /\ Unpacked /\ ures.ok /\ Extended /\ ores.res.ok
    /\ ures.val = Len(src) /\ Len(ores.src) = Len(src) + 10
    /\ ores.src[Len(src) + 1] = SOF /\ ures.frame.payload = TestPayload

\* the held value was packed again, at the same sequence, into a
\* destination of the same length with other contents
PackedAgain ==
    /\ ores # NoPeer /\ other = pseq
    /\ Len(ores.src) = Len(dst0) /\ ores.src # dst0

\* marshal writes exactly the bytes it reports
MarshalExact ==
    \/ msg.type \in {"TestCase", "CustomRobotData"}
    \/ msg.ret = OkSize(Len(msg.payload))

\* C32: pack output is independent of the destination's prior contents.
\* With a marshal that writes exactly the size bytes it reports, two
\* successful packs of the same value at the same sequence into
\* destinations with different contents return the same size and the same
\* bytes dst[0..size+9], and leave every byte from size + 9 on unchanged.
PackIgnoresPrior ==
    (Packed /\ pres.ok /\ PackedAgain /\ MarshalExact) =>
        /\ ores.res = pres
        /\ SubSeq(ores.dst, 1, pres.val) = SubSeq(dst, 1, pres.val)
        /\ SubSeq(ores.dst, pres.val + 1, Len(dst))
              = SubSeq(ores.src, pres.val + 1, Len(dst))
        /\ SubSeq(dst, pres.val + 1, Len(dst)) = SubSeq(dst0, pres.val + 1, Len(dst))

PackIgnoresPriorWitness ==
    /\ Packed /\ pres = OkSize(12) /\ PackedAgain
    /\ msg.type = "AnyMarshaler" /\ msg.payload = <<7, 8, 9>>
    /\ msg.ret = OkSize(3)
    /\ Len(dst) = 14 /\ dst[13] = 0 /\ ores.dst[13] = 255 /\ ores.dst[1] = SOF

\* the buffer the last read was appended to, with the read
Appended == data0 \o chunk

\* C33: receive-task buffer bound.  The accumulation buffer never holds
\* more than 128 bytes; a read of 1..64 bytes that would exceed 128 clears
\* the whole buffer, drops the read and calls no unpack; any other read is
\* appended in order and followed by exactly one data_process call.
BufferBound ==
    /\ Len(data) <= 128
    /\ chunk # <<>> =>
          /\ Len(chunk) \in 1..64
          /\ IF Len(data0) + Len(chunk) > 128
             THEN data = <<>> /\ tcalls = 0 /\ lres = NoRes /\ lmsg = NoMsg
             ELSE /\ tcalls = 1
                  /\ lres = unpack(Appended)
                  /\ drained <= Len(Appended)
                  /\ data = SubSeq(Appended, drained + 1, Len(Appended))

BufferBoundWitness ==
    /\ Len(data0) = 112 /\ Len(chunk) = 28 /\ data = <<>> /\ tcalls = 0
    /\ data0[1] = SOF

\* the complete frames of the awaited kind in the buffer buf
FramesIn(buf) ==
    Cardinality({i \in 0..(Len(buf) - Len(RcFrame)) :
                    SubSeq(buf, i + 1, i + Len(RcFrame)) = RcFrame})

\* the last read overflowed: the buffer was cleared and the read dropped
Overflowed == chunk # <<>> /\ tcalls = 0

\* C34 as stated: every complete valid frame with CMD_ID 0x0302 and a 5-byte
\* payload appended to the accumulation buffer is eventually returned by
\* data_process; none is lost to the one-unpack-per-read policy, to an
\* UnexpectedEnd stall or to the overflow clear.  A frame that is in the
\* buffer when the overflow clear empties it can no longer be returned, so
\* the claim requires the cleared buffer to hold no such frame.
FrameDelivered ==
    Overflowed => FramesIn(data0) = 0

\* no tick and no feed or kill is between two of its atomic operations
Quiescent == hpc \notin {"offline", "offline2"} /\ fop = "none"

\* the context's last call was feed(n), n >= 1, on fdev, and it has returned
FedLast == fop = "none" /\ fdev \in fedset /\ fttl >= 1

\* C35 as stated: a feed is not lost under interleaving.  For every
\* interleaving of one feed(n), n >= 1, with one concurrent tick of the same
\* heartbeat, once both have completed check() is true and ttl() >= n - 1,
\* and in every quiescent state check() = false implies ttl() = 0.
FeedNotLost ==
    (interval = "first" /\ FedLast) =>
        /\ (hpc = "ret" /\ hdev = fdev) =>
              (online[fdev] /\ ttl[fdev] >= fttl - 1)
        /\ Quiescent => (~online[fdev] => ttl[fdev] = 0)

====
